---- MODULE Spec2Model ----
(***************************************************************************)
(* Data-access layer of the sales CRM provider                             *)
(* (src/src/contexts/AppContext.tsx): request deduplication (makeRequest), *)
(* the single-slot leads cache (globalLeadsCache), fetchLeads, fetchTodos, *)
(* invalidateLeadsCache, the write operations addLead, updateLead,        *)
(* deleteLead, addTodo, updateTodo and deleteTodo, fetchSingleLead, the    *)
(* filter operations, the derived views and transformApiLeadToLead.        *)
(*                                                                         *)
(* Conventions of the model:                                               *)
(*   - a JavaScript object with optional properties is a record that holds *)
(*     only the properties that are set;                                   *)
(*   - a JSON text is the sequence of its <<name, value>> members in       *)
(*     property order; null (no cache key) is the empty sequence;          *)
(*   - Date.now() is the variable now, in milliseconds, advanced by Tick;  *)
(*   - an async handler that awaits the network is two actions: the call,  *)
(*     which records in writes the values its closure captured (leads,     *)
(*     todos, activeLeadId of the render it was created in), and the       *)
(*     continuation after the response, which works on those values.       *)
(***************************************************************************)
EXTENDS Integers, Sequences, FiniteSets, TLC

VARIABLES
    leads,             \* useState<Lead[]>            (AppContext.tsx:89)
    todos,             \* useState<Todo[]>            (AppContext.tsx:90)
    leadFilters,       \* useState<FilterOption[]>    (AppContext.tsx:91)
    todoFilters,       \* useState<FilterOption[]>    (AppContext.tsx:92)
    activeLeadId,      \* useState<number | null>     (AppContext.tsx:93)
    isLoading,         \* useState(false)             (AppContext.tsx:94)
    error,             \* useState<string | null>     (AppContext.tsx:95)
    globalLeadsCache,  \* useRef cache slot           (AppContext.tsx:107)
    activeRequests,    \* useRef Map key -> promise   (AppContext.tsx:119)
    requests,          \* the promises made by requestFn(), in order of issue
    callers,           \* the fetchLeads / fetchTodos invocations, in order
    writes,            \* the add / update / delete invocations, in order
    singleLeads,       \* the fetchSingleLead invocations, in order
    dispatched,        \* the handler that ran last dispatched 'leads-cache-invalidated'
    awaitingFresh,     \* history: the cache was invalidated and no fetch issued
                       \* after that invalidation has stored yet
    appendOrder,       \* history: the lead filters in the order the filter
                       \* operations (set, remove, clear) left them
    now                \* Date.now()

vars == <<leads, todos, leadFilters, todoFilters, activeLeadId, isLoading,
          error, globalLeadsCache, activeRequests, requests, callers, writes,
          singleLeads, dispatched, awaitingFresh, appendOrder, now>>

----------------------------------------------------------------------------
(* Bounds of the model *)

MaxCalls == 2
MaxFilters == 2
MaxWrites == 1

(* Program constants *)

CacheWindowMs == 2 * 60 * 1000
TickMs == 60 * 1000
DefaultPage == 1
DefaultPerPage == 20

----------------------------------------------------------------------------
(* Values *)

NoError == "null"

(* activeLeadId === null *)
NoLead == -1

BudgetMin == [field |-> "budget", operator |-> ">=", value |-> "10"]
BudgetMax == [field |-> "budget", operator |-> "<=", value |-> "50"]
StageIs == [field |-> "stage", operator |-> "=", value |-> "Fresh Lead"]

FilterUniverse == {BudgetMin, BudgetMax, StageIs}

(* The filter sequences the filter bar sets. *)
FilterChoices == { <<>>, <<StageIs>> }

NoParams == [x \in {} |-> 0]

(* The params objects the callers pass to fetchLeads. *)
LeadParamChoices ==
    { NoParams, [page |-> 1], [page |-> 2],
      [currentFilters |-> <<StageIs>>] }

TodoParamChoices == { NoParams }

(* Wider inputs, for the properties of the keys: every filter sequence up *)
(* to MaxFilters, and every scalar parameter at and off its default.      *)
FilterSeqs == UNION { [1..n -> FilterUniverse] : n \in 0..MaxFilters }

WideLeadParams ==
    { NoParams, [page |-> 1], [page |-> 2], [perPage |-> 50],
      [sortField |-> "name"], [sortOrder |-> "asc"], [search |-> "a"] }
    \cup { [currentFilters |-> fs] : fs \in FilterSeqs }

(* Raw records of the remote API and the pages it can answer with. *)
ApiLead1 == [id |-> "1", name |-> "A", budget |-> "10", labels |-> "hot",
             is_in_pipeline |-> "1", updated_at |-> <<"sql", 0>>]
ApiLead2 == [id |-> "2", name |-> "B", updated_at |-> <<"sql", 0>>]

LeadResponses ==
    { [data |-> <<>>],
      [data |-> <<ApiLead1, ApiLead2>>, total |-> 42] }

TodoResponses == { <<>>, <<[id |-> "3", contact_id |-> "1"]>> }

(* The answers of a server that holds leads 1 and 2 and todo 3. *)
FullLeadPage == [data |-> <<ApiLead1, ApiLead2>>, total |-> 42]

FullTodoPage == <<[id |-> "3", contact_id |-> "1"]>>

FailKinds == {"rejected"}

(* Every way the network call of fetchLeads fails: fetch throws, the *)
(* status is not OK, the body says success: false.                   *)
AllFailKinds == {"transport", "status", "rejected"}

(* The write operations have no response.ok test: fetch (or the parse of *)
(* the body) throws, or the body says success: false.                    *)
WriteFailKinds == {"transport", "rejected"}

(* Arguments of the write operations. Lead 3 and todo 4 are on no page. *)
LeadIds == {1, 3}

LeadUpdates ==
    { NoParams,
      [name |-> "A"], [name |-> "Z"],
      [labels |-> <<"hot">>],
      [name |-> "A", budget |-> 50] }

NewLead == [name |-> "C", budget |-> 50, labels |-> <<>>,
            isInPipeline |-> FALSE]

(* The id the server assigns to a created lead (data.id). *)
NewLeadId == "3"

NewTodo == [leadId |-> 1, status |-> "Pending"]

TodoIds == {3, 4}

TodoUpdates == { [status |-> "Completed"] }

SelectionChoices == {NoLead, 1}

----------------------------------------------------------------------------
(* Pure helpers *)

Has(obj, name) == name \in DOMAIN obj

Get(obj, name, default) == IF Has(obj, name) THEN obj[name] ELSE default

FieldOrder == <<"assignedTo", "budget", "isInPipeline", "priority",
                "propertyType", "source", "stage">>

(* a.field.localeCompare(b.field) < 0, = 0, > 0 as -1, 0, 1 *)
LocaleCompare(a, b) ==
    LET ia == CHOOSE i \in 1..Len(FieldOrder) : FieldOrder[i] = a
        ib == CHOOSE i \in 1..Len(FieldOrder) : FieldOrder[i] = b
    IN IF ia < ib THEN -1 ELSE IF ia > ib THEN 1 ELSE 0

(* Array.prototype.sort with the comparator of fetchLeads: a stable sort *)
(* by field name only.                                                   *)
RECURSIVE InsertByField(_, _)
InsertByField(f, sorted) ==
    IF sorted = <<>> THEN <<f>>
    ELSE IF LocaleCompare(f.field, Head(sorted).field) < 0
         THEN <<f>> \o sorted
         ELSE <<Head(sorted)>> \o InsertByField(f, Tail(sorted))

RECURSIVE SortByField(_)
SortByField(fs) ==
    IF fs = <<>> THEN <<>>
    ELSE InsertByField(fs[Len(fs)], SortByField(SubSeq(fs, 1, Len(fs) - 1)))

(* JSON.stringify of an object: its members in property order; a property *)
(* that is not set is left out.                                           *)
Stringify(obj, order) ==
    LET present == SelectSeq(order, LAMBDA n : n \in DOMAIN obj)
    IN [i \in 1..Len(present) |-> <<present[i], obj[present[i]]>>]

LeadParamOrder ==
    <<"page", "perPage", "sortField", "sortOrder", "search", "currentFilters">>

TodoParamOrder == <<"type", "page", "perPage", "sortOrder">>

CacheKeyOrder ==
    <<"page", "perPage", "sortField", "sortOrder", "search", "filters">>

ParamOrder(type) == IF type = "leads" THEN LeadParamOrder ELSE TodoParamOrder

createRequestKey(type, params) == <<type, Stringify(params, ParamOrder(type))>>

(* The decimal numerals of the model. *)
Numerals == <<"1", "2", "3", "4", "10", "50">>

NumeralValues == <<1, 2, 3, 4, 10, 50>>

(* A raw record of the remote API is a parsed JSON object: a property     *)
(* holds a string or, unexpectedly, null, a number or an array; a        *)
(* property that is not set reads as undefined. The values that are not  *)
(* strings are the tokens below.                                         *)
Undefined == "<undefined>"

Null == "<null>"

NumberFive == "<5>"

ArrayOfHot == "<[hot]>"

NonStrings == {Undefined, Null, NumberFive, ArrayOfHot}

IsString(value) == value \notin NonStrings

(* ToBoolean(value): undefined, null and "" are falsy *)
Truthy(value) == value \notin {Undefined, Null, ""}

(* value || default *)
OrElse(value, default) == IF Truthy(value) THEN value ELSE default

(* The result of parseInt on a value that does not start with a numeral *)
NaN == -999

(* parseInt on the values the remote API sends *)
ParseInt(str) ==
    IF \E i \in 1..Len(Numerals) : Numerals[i] = str
    THEN NumeralValues[CHOOSE i \in 1..Len(Numerals) : Numerals[i] = str]
    ELSE IF str = NumberFive THEN 5
    ELSE NaN

(* n || 0 on the result of parseInt: NaN and 0 are falsy *)
OrZero(n) == IF n = NaN THEN 0 ELSE n

(* Number.prototype.toString *)
NumberToString(n) ==
    IF \E i \in 1..Len(NumeralValues) : NumeralValues[i] = n
    THEN Numerals[CHOOSE i \in 1..Len(NumeralValues) : NumeralValues[i] = n]
    ELSE "0"

(* String.prototype.split(",") and Array.prototype.join(",") on the label *)
(* texts of the model.                                                   *)
Split(str) ==
    IF str = "hot,vip" THEN <<"hot", "vip">>
    ELSE IF str = "7,8" THEN <<"7", "8">>
    ELSE <<str>>

Join(list) ==
    IF list = <<>> THEN ""
    ELSE IF Len(list) = 1 THEN list[1]
    ELSE "hot,vip"

(* new Date().toISOString() *)
ToISOString(time) == <<"iso", time>>

(* The custom_fields texts of the model: an object, and what is not JSON *)
JsonObjectText == "{\"city\":\"Pune\"}"

(* JSON.parse(value), value converted to a string first: an object, null, *)
(* a number, or a SyntaxError.                                            *)
JSONParse(value) ==
    IF value = JsonObjectText
    THEN [kind |-> "object", members |-> [city |-> "Pune"]]
    ELSE IF value = "null" THEN [kind |-> "null"]
    ELSE IF value \in {"5", NumberFive} THEN [kind |-> "number", value |-> 5]
    ELSE [kind |-> "SyntaxError"]

(* {} *)
EmptyObject == [kind |-> "object", members |-> <<>>]

(* The option sets of ../data/options: the values of a field and their *)
(* wire values.                                                        *)
stageOptions ==
    { [value |-> "Fresh Lead", apiValue |-> "fresh_lead"],
      [value |-> "Deal - Closed", apiValue |-> "deal_closed"] }

priorityOptions ==
    { [value |-> "General", apiValue |-> "general"],
      [value |-> "High", apiValue |-> "high"] }

sourceOptions ==
    { [value |-> "Other", apiValue |-> "other"],
      [value |-> "Referral", apiValue |-> "referral"] }

OptionValues(options) == { opt.value : opt \in options }

(* getOptionByApiValue(options, apiValue)?.value || fallback *)
getOptionByApiValue(options, apiValue, fallback) ==
    IF \E opt \in options : opt.apiValue = apiValue
    THEN (CHOOSE opt \in options : opt.apiValue = apiValue).value
    ELSE fallback

(* A wire value that is a value of the set stays; otherwise it goes *)
(* through the reverse mapping.                                     *)
Coerced(options, wire, fallback) ==
    IF wire \in OptionValues(options) THEN wire
    ELSE getOptionByApiValue(options, wire, fallback)

(* apiLead.labels.split(",") is not a function: the transformer throws a *)
(* TypeError when labels is truthy and not a string.                     *)
Raises(apiLead) ==
    LET labels == Get(apiLead, "labels", Undefined)
    IN Truthy(labels) /\ ~IsString(labels)

customFieldsOf(apiLead) ==
    LET text == Get(apiLead, "custom_fields", Undefined)
    IN IF Truthy(text) /\ JSONParse(text).kind # "SyntaxError"
       THEN JSONParse(text)
       ELSE EmptyObject

(* The lead the transformer returns when it does not throw. *)
transformApiLeadToLead(apiLead) ==
    [id |-> ParseInt(Get(apiLead, "id", Undefined)),
     isInPipeline |-> (Get(apiLead, "is_in_pipeline", Undefined) = "1"),
     name |-> OrElse(Get(apiLead, "name", Undefined), ""),
     labels |-> IF Truthy(Get(apiLead, "labels", Undefined))
                THEN Split(apiLead.labels)
                ELSE <<>>,
     stage |-> Coerced(stageOptions, Get(apiLead, "stage", Undefined),
                       "Fresh Lead"),
     priority |-> Coerced(priorityOptions,
                          Get(apiLead, "priority", Undefined), "General"),
     budget |-> OrZero(ParseInt(Get(apiLead, "budget", Undefined))),
     source |-> OrElse(Get(apiLead, "source", Undefined), "Other"),
     customFields |-> customFieldsOf(apiLead),
     adminId |-> OrZero(ParseInt(Get(apiLead, "admin_id", Undefined))),
     leadScore |-> OrZero(ParseInt(Get(apiLead, "lead_scrore", Undefined))),
     updatedAt |-> Get(apiLead, "updated_at", <<"undefined">>)]

transformApiTodo(task) ==
    [id |-> ParseInt(task.id),
     leadId |-> ParseInt(task.contact_id),
     type |-> IF Get(task, "type", Undefined) = "activity" THEN "Activity"
              ELSE "Todo",
     description |-> OrElse(Get(task, "note", Undefined), ""),
     status |-> IF Get(task, "completed", Undefined) = "1" THEN "Completed"
                ELSE "Pending",
     participants |-> IF Truthy(Get(task, "assigned_to", Undefined))
                      THEN Split(task.assigned_to)
                      ELSE <<>>,
     updatedAt |-> Get(task, "updated_at", <<"undefined">>)]

(* The destructuring of params with its defaults (fetchLeads), after the *)
(* in-place sort of currentFilters.                                      *)
EffectiveQuery(params, stateFilters) ==
    [page |-> Get(params, "page", DefaultPage),
     perPage |-> Get(params, "perPage", DefaultPerPage),
     sortField |-> Get(params, "sortField", "created_at"),
     sortOrder |-> Get(params, "sortOrder", "desc"),
     search |-> Get(params, "search", ""),
     filters |-> SortByField(Get(params, "currentFilters", stateFilters))]

(* Mutant: the cache key leaves the page out. *)
CacheKey_WithoutPage(query) == Stringify(query, Tail(CacheKeyOrder))

CacheKey(query) == Stringify(query, CacheKeyOrder)

NoCacheKey == <<>>

EmptyCache == [data |-> <<>>, params |-> NoCacheKey, timestamp |-> 0]

(* Mutant: a window of 2 seconds instead of 2 minutes. *)
CacheValid_TwoSeconds(cache, time) == time - cache.timestamp < 2 * 1000

(* Mutant: an entry of exactly the window's age is still served. *)
CacheValid_Inclusive(cache, time) == time - cache.timestamp <= CacheWindowMs

CacheValid(cache, time) == time - cache.timestamp < CacheWindowMs

CacheHit(cache, cacheKey, time) ==
    /\ Len(cache.data) > 0
    /\ cache.params = cacheKey
    /\ CacheValid(cache, time)

(* Ids of the promises that have not settled. *)
InFlight == { r \in 1..Len(requests) : requests[r].state = "inflight" }

MapDelete(map, key) == [k \in DOMAIN map \ {key} |-> map[k]]

----------------------------------------------------------------------------
(* State after construction of the provider *)

Init ==
    /\ leads = <<>>
    /\ todos = <<>>
    /\ leadFilters = <<>>
    /\ isLoading = FALSE
    /\ error = NoError
    /\ globalLeadsCache = EmptyCache
    /\ activeRequests = <<>>
    /\ requests = <<>>
    /\ callers = <<>>
    /\ activeLeadId = NoLead
    /\ writes = <<>>
    /\ dispatched = FALSE
    /\ awaitingFresh = FALSE
    /\ todoFilters = <<>>
    /\ singleLeads = <<>>
    /\ appendOrder = leadFilters
    /\ now = CacheWindowMs

----------------------------------------------------------------------------
(* makeRequest(key, requestFn): join the pending promise of the key, or   *)
(* call requestFn (which sets isLoading, and error for leads, and issues  *)
(* the network call) and register its promise.                            *)
(* A caller record: what was asked (type, key, query), when (at), the     *)
(* requests that were in flight then (inFlightSeen), and how it was      *)
(* answered: from the cache, by a promise it issued, or by one it joined. *)
Caller(type, key, query, how, req) ==
    [type |-> type, key |-> key, query |-> query, how |-> how, req |-> req,
     at |-> now, inFlightSeen |-> InFlight]

makeRequest(type, key, cacheKey, query) ==
    IF key \in DOMAIN activeRequests
    THEN /\ callers' = Append(callers,
                Caller(type, key, query, "joined", activeRequests[key]))
         /\ UNCHANGED <<requests, activeRequests, isLoading, error>>
    ELSE /\ requests' = Append(requests,
                [type |-> type, key |-> key, cacheKey |-> cacheKey,
                 query |-> query, state |-> "inflight", preInv |-> FALSE])
         /\ activeRequests' = (key :> (Len(requests) + 1)) @@ activeRequests
         /\ callers' = Append(callers,
                Caller(type, key, query, "issued", Len(requests) + 1))
         /\ isLoading' = TRUE
         /\ error' = IF type = "leads" THEN NoError ELSE error

fetchLeads(params) ==
    LET fromState == ~Has(params, "currentFilters")
        query == EffectiveQuery(params, leadFilters)
        sortedParams == IF fromState THEN params
                        ELSE [params EXCEPT !.currentFilters = query.filters]
        cacheKey == CacheKey(query)
        requestKey == createRequestKey("leads", sortedParams)
    IN /\ Len(callers) < MaxCalls
       /\ leadFilters' = IF fromState THEN query.filters ELSE leadFilters
       /\ IF CacheHit(globalLeadsCache, cacheKey, now)
          THEN /\ leads' = globalLeadsCache.data
               /\ callers' = Append(callers,
                      [data |-> globalLeadsCache.data,
                       total |-> Get(globalLeadsCache, "total", 0)]
                      @@ Caller("leads", requestKey, query, "cache", 0))
               /\ UNCHANGED <<requests, activeRequests, isLoading, error>>
          ELSE /\ makeRequest("leads", requestKey, cacheKey, query)
               /\ UNCHANGED leads
       /\ dispatched' = FALSE
       /\ UNCHANGED <<todos, activeLeadId, globalLeadsCache, writes,
                      awaitingFresh, now,
                      todoFilters, singleLeads, appendOrder>>

fetchTodos(params) ==
    /\ Len(callers) < MaxCalls
    /\ makeRequest("todos", createRequestKey("todos", params), NoCacheKey, params)
    /\ dispatched' = FALSE
    /\ UNCHANGED <<leads, todos, leadFilters, activeLeadId, globalLeadsCache,
                   writes, awaitingFresh, now,
                   todoFilters, singleLeads, appendOrder>>

(* Mutant: .then instead of .finally, the key of a rejected promise stays. *)
Settled_KeepsRejectedKey(r, outcome) ==
    /\ requests' = [requests EXCEPT ![r] =
                       outcome @@ [type |-> requests[r].type,
                                   key |-> requests[r].key,
                                   cacheKey |-> requests[r].cacheKey,
                                   query |-> requests[r].query]]
    /\ activeRequests' = IF outcome.state = "fail" THEN activeRequests
                         ELSE MapDelete(activeRequests, requests[r].key)

(* Completion of a promise: the body of requestFn after the awaited fetch, *)
(* then the .finally of makeRequest, which deletes the key.               *)
Settled(r, outcome) ==
    /\ requests' = [requests EXCEPT ![r] =
                       outcome @@ [type |-> requests[r].type,
                                   key |-> requests[r].key,
                                   cacheKey |-> requests[r].cacheKey,
                                   query |-> requests[r].query]]
    /\ activeRequests' = MapDelete(activeRequests, requests[r].key)

(* The handlers suspended on the promise of request r: addLead awaits its *)
(* refetch of the leads, addTodo its refetch of the todos.                *)
Awaiting(r) ==
    { w \in 1..Len(writes) :
        writes[w].state = "refetching" /\ writes[w].req = r }

(* Their continuations, run as the promise settles: they resolve, or (the *)
(* catch of addLead) reject with the error of the refetch.               *)
Resumed(r, state, err) ==
    [w \in 1..Len(writes) |->
        IF w \in Awaiting(r)
        THEN [writes[w] EXCEPT !.state = state, !.err = err]
        ELSE writes[w]]

(* setActiveLeadId(parseInt(data.id)) of the addLead calls resumed by r *)
SelectionAfter(r) ==
    LET added == { w \in Awaiting(r) : writes[w].op = "addLead" }
    IN IF added = {} THEN activeLeadId
       ELSE writes[CHOOSE w \in added : \A v \in added : v <= w].id

(* Mutant: the key is read when the response arrives, not when the call *)
(* was made: it is the key of the request issued last.                  *)
StoredSlot_KeyOfNewestRequest(data, cacheKey, total) ==
    [data |-> data, params |-> requests[Len(requests)].cacheKey,
     timestamp |-> now, total |-> total]

(* Mutant: a response without a total keeps the total of the older slot. *)
StoredSlot_KeepsOlderTotal(data, cacheKey, total) ==
    [data |-> data, params |-> cacheKey, timestamp |-> now,
     total |-> IF total = 0 THEN Get(globalLeadsCache, "total", 0) ELSE total]

(* The object fetchLeads assigns to globalLeadsCache.current *)
StoredSlot(data, cacheKey, total) ==
    [data |-> data, params |-> cacheKey, timestamp |-> now, total |-> total]

(* The page of a server whose lead 1 has custom fields. *)
DetailPage ==
    [data |-> << [id |-> "1", name |-> "A", budget |-> "10",
                  labels |-> "hot", is_in_pipeline |-> "1",
                  custom_fields |-> JsonObjectText,
                  updated_at |-> <<"sql", 0>>],
                 ApiLead2 >>,
     total |-> 2]

(* apiResponse.data.map(transformApiLeadToLead), for the pages of the *)
(* model                                                              *)
TransformedPages ==
    [apiResponse \in LeadResponses \cup {FullLeadPage, DetailPage} |->
        [i \in 1..Len(apiResponse.data) |->
            transformApiLeadToLead(apiResponse.data[i])]]

(* fetchLeads: response.ok and apiResponse.success *)
fetchLeadsSucceeds(r, apiResponse) ==
    LET transformedLeads == TransformedPages[apiResponse]
        total == Get(apiResponse, "total", 0)
    IN /\ r \in InFlight
       /\ requests[r].type = "leads"
       /\ \A i \in 1..Len(apiResponse.data) : ~Raises(apiResponse.data[i])
       /\ globalLeadsCache' =
              StoredSlot(transformedLeads, requests[r].cacheKey, total)
       /\ leads' = transformedLeads
       /\ isLoading' = FALSE
       /\ Settled(r, [state |-> "ok", data |-> transformedLeads,
                       total |-> total, storedAt |-> now])
       /\ writes' = Resumed(r, "ok", NoError)
       /\ activeLeadId' = SelectionAfter(r)
       /\ awaitingFresh' = (awaitingFresh /\ requests[r].preInv)
       /\ dispatched' = FALSE
       /\ UNCHANGED <<todos, leadFilters, error, callers, now,
                      todoFilters, singleLeads, appendOrder>>

ErrorMessage(kind, fallback) ==
    IF kind = "transport" THEN "Failed to fetch"
    ELSE IF kind = "status" THEN fallback
    ELSE "Server message"

(* Mutant: the failure also empties the slot and the collection. *)
fetchLeadsFails_DropsData(r, kind) ==
    /\ r \in InFlight
    /\ requests[r].type = "leads"
    /\ error' = ErrorMessage(kind, "Failed to fetch leads")
    /\ isLoading' = FALSE
    /\ Settled(r, [state |-> "fail",
                   err |-> ErrorMessage(kind, "Failed to fetch leads")])
    /\ writes' = Resumed(r, "fail", ErrorMessage(kind, "Failed to fetch leads"))
    /\ dispatched' = FALSE
    /\ leads' = <<>>
    /\ globalLeadsCache' = EmptyCache
    /\ UNCHANGED <<todos, leadFilters, activeLeadId, callers, awaitingFresh,
                   now,
                   todoFilters, singleLeads, appendOrder>>

(* fetchLeads: fetch throws (as does the transformer on a record it   *)
(* cannot split), !response.ok, or success: false                    *)
fetchLeadsFails(r, kind) ==
    /\ r \in InFlight
    /\ requests[r].type = "leads"
    /\ error' = ErrorMessage(kind, "Failed to fetch leads")
    /\ isLoading' = FALSE
    /\ Settled(r, [state |-> "fail",
                   err |-> ErrorMessage(kind, "Failed to fetch leads")])
    /\ writes' = Resumed(r, "fail", ErrorMessage(kind, "Failed to fetch leads"))
    /\ dispatched' = FALSE
    /\ UNCHANGED <<leads, todos, leadFilters, activeLeadId, globalLeadsCache,
                   callers, awaitingFresh, now,
                   todoFilters, singleLeads, appendOrder>>

(* fetchTodos: response.ok and data.success *)
fetchTodosSucceeds(r, data) ==
    /\ r \in InFlight
    /\ requests[r].type = "todos"
    /\ todos' = [i \in 1..Len(data) |-> transformApiTodo(data[i])]
    /\ isLoading' = FALSE
    /\ Settled(r, [state |-> "ok", answer |-> "success"])
    /\ writes' = Resumed(r, "ok", NoError)
    /\ dispatched' = FALSE
    /\ UNCHANGED <<leads, leadFilters, activeLeadId, error, globalLeadsCache,
                   callers, awaitingFresh, now,
                   todoFilters, singleLeads, appendOrder>>

(* Mutant: the catch of fetchTodos records the error and rethrows, as the *)
(* catch of fetchLeads does.                                             *)
fetchTodosFails_Rethrows(r, kind) ==
    /\ r \in InFlight
    /\ requests[r].type = "todos"
    /\ isLoading' = FALSE
    /\ error' = ErrorMessage(kind, "Failed to fetch tasks")
    /\ Settled(r, [state |-> "fail", answer |-> kind,
                   err |-> ErrorMessage(kind, "Failed to fetch tasks")])
    /\ writes' = Resumed(r, "fail", ErrorMessage(kind, "Failed to fetch tasks"))
    /\ dispatched' = FALSE
    /\ UNCHANGED <<leads, todos, leadFilters, activeLeadId,
                   globalLeadsCache, callers, awaitingFresh, now,
                   todoFilters, singleLeads, appendOrder>>

(* fetchTodos: the failure is caught and logged (success: false is not   *)
(* even logged); the promise resolves. answer records what the network  *)
(* call ended with.                                                      *)
fetchTodosFails(r, kind) ==
    /\ r \in InFlight
    /\ requests[r].type = "todos"
    /\ isLoading' = FALSE
    /\ Settled(r, [state |-> "ok", answer |-> kind])
    /\ writes' = Resumed(r, "ok", NoError)
    /\ dispatched' = FALSE
    /\ UNCHANGED <<leads, todos, leadFilters, activeLeadId, error,
                   globalLeadsCache, callers, awaitingFresh, now,
                   todoFilters, singleLeads, appendOrder>>

(* The requests, those in flight marked as issued before an invalidation. *)
MarkedPreInv ==
    [r \in 1..Len(requests) |->
        IF requests[r].state = "inflight"
        THEN [requests[r] EXCEPT !.preInv = TRUE]
        ELSE requests[r]]

(* Mutant: the map of pending promises is left as it is (as in the older *)
(* src/unnamed/part_000).                                                *)
ClearedRequests_Kept == activeRequests

(* activeRequests.current.clear() *)
ClearedRequests == <<>>

(* The body of invalidateLeadsCache, as the handlers that call it run it. *)
Invalidated(skipEvent) ==
    /\ globalLeadsCache' = EmptyCache
    /\ activeRequests' = ClearedRequests
    /\ dispatched' = ~skipEvent
    /\ awaitingFresh' = TRUE
    /\ requests' = MarkedPreInv

invalidateLeadsCache(skipEvent) ==
    /\ Invalidated(skipEvent)
    /\ UNCHANGED <<leads, todos, leadFilters, activeLeadId, isLoading, error,
                   callers, writes, now,
                   todoFilters, singleLeads, appendOrder>>

setLeadFilters(newFilters) ==
    /\ leadFilters' = newFilters
    /\ appendOrder' = newFilters
    /\ dispatched' = FALSE
    /\ UNCHANGED <<leads, todos, activeLeadId, isLoading, error,
                   globalLeadsCache, activeRequests, requests, callers, writes,
                   awaitingFresh, now,
                   todoFilters, singleLeads>>

----------------------------------------------------------------------------
(* The write operations *)

(* The state values the handlers of the current render close over. *)
Closure == [leads |-> leads, todos |-> todos, activeLeadId |-> activeLeadId]

(* A call of a write operation: its arguments, the values it closed over, *)
(* whether it sent a request and with what body, and the state of the     *)
(* promise it returned: pending, refetching, ok (resolved), fail          *)
(* (rejected with err). confirmed: the server answered success: true.     *)
Write(op, id, arg, state, sent, body, err) ==
    [op |-> op, id |-> id, arg |-> arg, seen |-> Closure, state |-> state,
     sent |-> sent, body |-> body, err |-> err, req |-> 0,
     confirmed |-> FALSE]

Pending(op) ==
    { w \in 1..Len(writes) :
        writes[w].op = op /\ writes[w].state = "pending" }

setActiveLeadId(id) ==
    /\ activeLeadId' = id
    /\ dispatched' = FALSE
    /\ UNCHANGED <<leads, todos, leadFilters, isLoading, error,
                   globalLeadsCache, activeRequests, requests, callers, writes,
                   awaitingFresh, now,
                   todoFilters, singleLeads, appendOrder>>

HasLead(list, id) == \E i \in 1..Len(list) : list[i].id = id

(* Array.prototype.find: the first lead with the id *)
FindLead(list, id) ==
    list[CHOOSE i \in 1..Len(list) :
            list[i].id = id /\ \A j \in 1..(i - 1) : list[j].id # id]

(* Array.isArray(value), for the values the lead fields hold *)
IsArray(key) == key = "labels"

(* JSON.stringify of an array of strings *)
StringifyArray(list) == <<"[", list, "]">>

(* The fields that hold an object: a supplied object is a new object, *)
(* which !== tells from the one the lead holds whatever its members.  *)
IsObject(key) == key = "customFields"

(* The members of a customFields value; what is not an object (null, a *)
(* number) has none.                                                   *)
Members(value) == IF value.kind = "object" THEN value.members ELSE <<>>

(* { ...a, ...b } *)
Spread(a, b) ==
    [name \in DOMAIN Members(a) \cup DOMAIN Members(b) |->
        IF name \in DOMAIN Members(b) THEN Members(b)[name]
        ELSE Members(a)[name]]

CustomFieldOrder == <<"city", "area">>

(* Mutant: every supplied field counts as a change. *)
hasChanges_AnySupplied(currentLead, leadUpdate) == DOMAIN leadUpdate # {}

hasChanges(currentLead, leadUpdate) ==
    \E key \in DOMAIN leadUpdate :
        IF IsArray(key)
        THEN StringifyArray(leadUpdate[key]) # StringifyArray(currentLead[key])
        ELSE IF IsObject(key) THEN TRUE
        ELSE leadUpdate[key] # currentLead[key]

(* The wire name and the wire value of a lead field *)
LeadWireName(key) ==
    IF key = "isInPipeline" THEN "is_in_pipeline"
    ELSE IF key = "customFields" THEN "custom_fields"
    ELSE key

LeadWireValue(key, value) ==
    IF key = "isInPipeline" THEN (IF value THEN 1 ELSE 0)
    ELSE IF key = "labels" THEN Join(value)
    ELSE IF key = "budget" THEN NumberToString(value)
    ELSE value

(* The body updateLead sends: the id and every supplied field; the   *)
(* custom fields are sent merged with those of the current lead.    *)
apiUpdate(currentLead, id, leadUpdate) ==
    [n \in {"id"} \cup { LeadWireName(key) : key \in DOMAIN leadUpdate } |->
        IF n = "id" THEN NumberToString(id)
        ELSE LET key == CHOOSE k \in DOMAIN leadUpdate : LeadWireName(k) = n
             IN IF key = "customFields"
                THEN Stringify(Spread(currentLead.customFields,
                                      leadUpdate.customFields),
                               CustomFieldOrder)
                ELSE LeadWireValue(key, leadUpdate[key])]

(* The body addLead sends *)
apiLead(lead) ==
    [is_in_pipeline |-> LeadWireValue("isInPipeline", lead.isInPipeline),
     name |-> lead.name,
     labels |-> LeadWireValue("labels", lead.labels),
     budget |-> LeadWireValue("budget", lead.budget),
     admin_id |-> 1]

(* The wire values of the type and of the status of a todo *)
TodoWireType(type) == IF type = "Activity" THEN "activity" ELSE "task"

TodoWireCompleted(status) == IF status = "Completed" THEN 1 ELSE 0

(* The bodies addTodo and updateTodo send *)
apiTodo(todo) ==
    [contact_id |-> NumberToString(todo.leadId),
     type |-> TodoWireType(Get(todo, "type", Undefined)),
     completed |-> TodoWireCompleted(todo.status)]

apiTodoUpdate(id, todoUpdate) ==
    [n \in {"id"}
            \cup (IF Has(todoUpdate, "type") THEN {"type"} ELSE {})
            \cup (IF Has(todoUpdate, "status") THEN {"completed"} ELSE {}) |->
        IF n = "id" THEN NumberToString(id)
        ELSE IF n = "type" THEN TodoWireType(todoUpdate.type)
        ELSE TodoWireCompleted(todoUpdate.status)]

(* updateLead up to the awaited fetch: 'Lead not found' is thrown into the *)
(* catch, which sets the error and rejects; without a change it returns;  *)
(* otherwise the PUT is sent.                                             *)
updateLeadCalled(id, leadUpdate) ==
    /\ IF ~HasLead(leads, id)
       THEN /\ writes' = Append(writes,
                   Write("updateLead", id, leadUpdate, "fail", FALSE, NoParams,
                         "Lead not found"))
            /\ error' = "Lead not found"
       ELSE IF ~hasChanges(FindLead(leads, id), leadUpdate)
       THEN /\ writes' = Append(writes,
                   Write("updateLead", id, leadUpdate, "ok", FALSE, NoParams,
                         NoError))
            /\ UNCHANGED error
       ELSE /\ writes' = Append(writes,
                   Write("updateLead", id, leadUpdate, "pending", TRUE,
                         apiUpdate(FindLead(leads, id), id, leadUpdate),
                         NoError))
            /\ UNCHANGED error
    /\ dispatched' = FALSE
    /\ UNCHANGED <<leads, todos, leadFilters, activeLeadId, isLoading,
                   globalLeadsCache, activeRequests, requests, callers,
                   awaitingFresh, now,
                   todoFilters, singleLeads, appendOrder>>

updateLead(id, leadUpdate) ==
    /\ Len(writes) < MaxWrites
    /\ updateLeadCalled(id, leadUpdate)

(* handleInputBlur and handleImmediateChange of the detail view call    *)
(* updateLead without awaiting it: a call made while an earlier call is *)
(* waiting for its response (one call more than MaxWrites).             *)
handleInputBlur(id, leadUpdate) ==
    /\ Pending("updateLead") # {}
    /\ Len(writes) <= MaxWrites
    /\ updateLeadCalled(id, leadUpdate)

(* { ...current, ...update, updatedAt: new Date().toISOString() }, of *)
(* updateLead and updateTodo                                         *)
Merged(current, update) ==
    [key \in DOMAIN current \cup DOMAIN update \cup {"updatedAt"} |->
        IF key = "updatedAt" THEN ToISOString(now)
        ELSE IF key \in DOMAIN update THEN update[key]
        ELSE current[key]]

(* updateLead: data.success *)
updateLeadSucceeds(w) ==
    LET id == writes[w].id
        seen == writes[w].seen
        updatedLead == Merged(FindLead(seen.leads, id), writes[w].arg)
    IN /\ w \in Pending("updateLead")
       /\ leads' = [i \in 1..Len(seen.leads) |->
                       IF seen.leads[i].id = id THEN updatedLead
                       ELSE seen.leads[i]]
       /\ Invalidated(seen.activeLeadId = id)
       /\ writes' = [writes EXCEPT ![w].state = "ok", ![w].confirmed = TRUE]
       /\ UNCHANGED <<todos, leadFilters, activeLeadId, isLoading, error,
                      callers, now,
                      todoFilters, singleLeads, appendOrder>>

(* Mutant: the failure is swallowed, as in the delete operations. *)
WriteRejected_Swallowed(w, message) ==
    /\ writes' = [writes EXCEPT ![w].state = "ok"]
    /\ dispatched' = FALSE
    /\ UNCHANGED <<leads, todos, leadFilters, activeLeadId, isLoading, error,
                   globalLeadsCache, activeRequests, requests, callers,
                   awaitingFresh, now,
                   todoFilters, singleLeads, appendOrder>>

(* The catch of addLead, updateLead, addTodo and updateTodo: fetch threw *)
(* or the body said success: false.                                     *)
WriteRejected(w, message) ==
    /\ error' = message
    /\ writes' = [writes EXCEPT ![w].state = "fail", ![w].err = message]
    /\ dispatched' = FALSE
    /\ UNCHANGED <<leads, todos, leadFilters, activeLeadId, isLoading,
                   globalLeadsCache, activeRequests, requests, callers,
                   awaitingFresh, now,
                   todoFilters, singleLeads, appendOrder>>

updateLeadFails(w, kind) ==
    /\ w \in Pending("updateLead")
    /\ WriteRejected(w, ErrorMessage(kind, "Failed to update lead"))

deleteLead(id) ==
    /\ Len(writes) < MaxWrites
    /\ writes' = Append(writes,
           Write("deleteLead", id, NoParams, "pending", TRUE, NoParams, NoError))
    /\ dispatched' = FALSE
    /\ UNCHANGED <<leads, todos, leadFilters, activeLeadId, isLoading, error,
                   globalLeadsCache, activeRequests, requests, callers,
                   awaitingFresh, now,
                   todoFilters, singleLeads, appendOrder>>

(* deleteLead: data.success *)
deleteLeadSucceeds(w) ==
    LET id == writes[w].id
        seen == writes[w].seen
    IN /\ w \in Pending("deleteLead")
       /\ leads' = SelectSeq(seen.leads, LAMBDA lead : lead.id # id)
       /\ todos' = SelectSeq(seen.todos, LAMBDA todo : todo.leadId # id)
       /\ activeLeadId' = IF seen.activeLeadId = id THEN NoLead
                          ELSE activeLeadId
       /\ writes' = [writes EXCEPT ![w].state = "ok", ![w].confirmed = TRUE]
       /\ dispatched' = FALSE
       /\ UNCHANGED <<leadFilters, isLoading, error, globalLeadsCache,
                      activeRequests, requests, callers, awaitingFresh, now,
                      todoFilters, singleLeads, appendOrder>>

(* Mutant: the failure is rethrown, as in the add and update operations. *)
DeleteFailed_Rethrows(w) ==
    /\ writes' = [writes EXCEPT ![w].state = "fail"]
    /\ dispatched' = FALSE
    /\ UNCHANGED <<leads, todos, leadFilters, activeLeadId, isLoading, error,
                   globalLeadsCache, activeRequests, requests, callers,
                   awaitingFresh, now,
                   todoFilters, singleLeads, appendOrder>>

(* The failure branches of deleteLead and deleteTodo: a toast, and the *)
(* promise resolves.                                                   *)
DeleteFailed(w) ==
    /\ writes' = [writes EXCEPT ![w].state = "ok"]
    /\ dispatched' = FALSE
    /\ UNCHANGED <<leads, todos, leadFilters, activeLeadId, isLoading, error,
                   globalLeadsCache, activeRequests, requests, callers,
                   awaitingFresh, now,
                   todoFilters, singleLeads, appendOrder>>

deleteLeadFails(w, kind) ==
    /\ w \in Pending("deleteLead")
    /\ kind \in WriteFailKinds
    /\ DeleteFailed(w)

addLead(lead) ==
    /\ Len(writes) < MaxWrites
    /\ writes' = Append(writes,
           Write("addLead", NoLead, lead, "pending", TRUE, apiLead(lead),
                 NoError))
    /\ dispatched' = FALSE
    /\ UNCHANGED <<leads, todos, leadFilters, activeLeadId, isLoading, error,
                   globalLeadsCache, activeRequests, requests, callers,
                   awaitingFresh, now,
                   todoFilters, singleLeads, appendOrder>>

(* addLead: data.success. invalidateLeadsCache(), then fetchLeads() up to *)
(* its network call: the slot was just emptied, so the cache is not used, *)
(* and makeRequest looks the key up in the map invalidateLeadsCache left. *)
(* The handler then awaits the promise of the refetch. (fetchLeads reads  *)
(* the leadFilters of the render addLead was called in; the filter bar is *)
(* left alone while an addLead is pending.)                               *)
addLeadSucceeds(w, dataId) ==
    LET query == EffectiveQuery(NoParams, leadFilters)
        requestKey == createRequestKey("leads", NoParams)
        joins == requestKey \in DOMAIN ClearedRequests
        r == IF joins THEN ClearedRequests[requestKey] ELSE Len(requests) + 1
    IN /\ w \in Pending("addLead")
       /\ globalLeadsCache' = EmptyCache
       /\ dispatched' = TRUE
       /\ awaitingFresh' = TRUE
       /\ leadFilters' = query.filters
       /\ IF joins
          THEN /\ requests' = MarkedPreInv
               /\ activeRequests' = ClearedRequests
               /\ callers' = Append(callers,
                      Caller("leads", requestKey, query, "joined", r))
               /\ UNCHANGED <<isLoading, error>>
          ELSE /\ requests' = Append(MarkedPreInv,
                      [type |-> "leads", key |-> requestKey,
                       cacheKey |-> CacheKey(query), query |-> query,
                       state |-> "inflight", preInv |-> FALSE])
               /\ activeRequests' = (requestKey :> r) @@ ClearedRequests
               /\ callers' = Append(callers,
                      Caller("leads", requestKey, query, "issued", r))
               /\ isLoading' = TRUE
               /\ error' = NoError
       /\ writes' = [writes EXCEPT ![w].state = "refetching", ![w].req = r,
                                   ![w].id = ParseInt(dataId),
                                   ![w].confirmed = TRUE]
       /\ UNCHANGED <<leads, todos, activeLeadId, now,
                      todoFilters, singleLeads, appendOrder>>

addLeadFails(w, kind) ==
    /\ w \in Pending("addLead")
    /\ WriteRejected(w, ErrorMessage(kind, "Failed to add lead"))

addTodo(todo) ==
    /\ Len(writes) < MaxWrites
    /\ writes' = Append(writes,
           Write("addTodo", NoLead, todo, "pending", TRUE, apiTodo(todo),
                 NoError))
    /\ dispatched' = FALSE
    /\ UNCHANGED <<leads, todos, leadFilters, activeLeadId, isLoading, error,
                   globalLeadsCache, activeRequests, requests, callers,
                   awaitingFresh, now,
                   todoFilters, singleLeads, appendOrder>>

(* addTodo: data.success. fetchTodos() up to its network call; the handler *)
(* then awaits the promise makeRequest returned.                           *)
addTodoSucceeds(w) ==
    LET requestKey == createRequestKey("todos", NoParams)
        r == IF requestKey \in DOMAIN activeRequests
             THEN activeRequests[requestKey] ELSE Len(requests) + 1
    IN /\ w \in Pending("addTodo")
       /\ makeRequest("todos", requestKey, NoCacheKey, NoParams)
       /\ writes' = [writes EXCEPT ![w].state = "refetching", ![w].req = r,
                                   ![w].confirmed = TRUE]
       /\ dispatched' = FALSE
       /\ UNCHANGED <<leads, todos, leadFilters, activeLeadId,
                      globalLeadsCache, awaitingFresh, now,
                      todoFilters, singleLeads, appendOrder>>

addTodoFails(w, kind) ==
    /\ w \in Pending("addTodo")
    /\ WriteRejected(w, ErrorMessage(kind, "Failed to add task"))

updateTodo(id, todoUpdate) ==
    /\ Len(writes) < MaxWrites
    /\ writes' = Append(writes,
           Write("updateTodo", id, todoUpdate, "pending", TRUE,
                 apiTodoUpdate(id, todoUpdate), NoError))
    /\ dispatched' = FALSE
    /\ UNCHANGED <<leads, todos, leadFilters, activeLeadId, isLoading, error,
                   globalLeadsCache, activeRequests, requests, callers,
                   awaitingFresh, now,
                   todoFilters, singleLeads, appendOrder>>

(* updateTodo: data.success *)
updateTodoSucceeds(w) ==
    LET id == writes[w].id
        seen == writes[w].seen
    IN /\ w \in Pending("updateTodo")
       /\ todos' = [i \in 1..Len(seen.todos) |->
                       IF seen.todos[i].id = id
                       THEN Merged(seen.todos[i], writes[w].arg)
                       ELSE seen.todos[i]]
       /\ writes' = [writes EXCEPT ![w].state = "ok", ![w].confirmed = TRUE]
       /\ dispatched' = FALSE
       /\ UNCHANGED <<leads, leadFilters, activeLeadId, isLoading, error,
                      globalLeadsCache, activeRequests, requests, callers,
                      awaitingFresh, now,
                      todoFilters, singleLeads, appendOrder>>

updateTodoFails(w, kind) ==
    /\ w \in Pending("updateTodo")
    /\ WriteRejected(w, ErrorMessage(kind, "Failed to update task"))

deleteTodo(id) ==
    /\ Len(writes) < MaxWrites
    /\ writes' = Append(writes,
           Write("deleteTodo", id, NoParams, "pending", TRUE, NoParams, NoError))
    /\ dispatched' = FALSE
    /\ UNCHANGED <<leads, todos, leadFilters, activeLeadId, isLoading, error,
                   globalLeadsCache, activeRequests, requests, callers,
                   awaitingFresh, now,
                   todoFilters, singleLeads, appendOrder>>

(* deleteTodo: data.success *)
deleteTodoSucceeds(w) ==
    LET id == writes[w].id
        seen == writes[w].seen
    IN /\ w \in Pending("deleteTodo")
       /\ todos' = SelectSeq(seen.todos, LAMBDA todo : todo.id # id)
       /\ writes' = [writes EXCEPT ![w].state = "ok", ![w].confirmed = TRUE]
       /\ dispatched' = FALSE
       /\ UNCHANGED <<leads, leadFilters, activeLeadId, isLoading, error,
                      globalLeadsCache, activeRequests, requests, callers,
                      awaitingFresh, now,
                      todoFilters, singleLeads, appendOrder>>

deleteTodoFails(w, kind) ==
    /\ w \in Pending("deleteTodo")
    /\ kind \in WriteFailKinds
    /\ DeleteFailed(w)

(* The activities of a server that stores what it is sent: todo 3 of   *)
(* lead 1, and the columns the confirmed addTodo, updateTodo and       *)
(* deleteTodo calls sent, in the order of the calls. The server keeps  *)
(* a column as text and gives a created todo the id NewTodoId.         *)
TodoStatuses == {"Pending", "Completed", "Cancelled", "Overdue"}

TodoTypes == {"Follow Up", "Meeting", "Find Match", "Schedule Site Visit",
              "Todo", "Activity", "Other"}

NewTodoId == "4"

StoredColumns(body) ==
    [name \in DOMAIN body \ {"id"} |->
        IF name = "completed" THEN NumberToString(body[name])
        ELSE body[name]]

RECURSIVE TodosStoredAfter(_)
TodosStoredAfter(n) ==
    IF n = 0 THEN FullTodoPage
    ELSE LET before == TodosStoredAfter(n - 1)
             w == writes[n]
         IN IF ~w.confirmed THEN before
            ELSE IF w.op = "addTodo"
            THEN Append(before, StoredColumns(w.body) @@ [id |-> NewTodoId])
            ELSE IF w.op = "updateTodo"
            THEN [i \in 1..Len(before) |->
                     IF before[i].id = NumberToString(w.id)
                     THEN StoredColumns(w.body) @@ before[i]
                     ELSE before[i]]
            ELSE IF w.op = "deleteTodo"
            THEN SelectSeq(before, LAMBDA task : task.id # NumberToString(w.id))
            ELSE before

ServerTodos == TodosStoredAfter(Len(writes))

----------------------------------------------------------------------------
(* fetchSingleLead *)

(* The record of lead 3, which is on no page, and what data.data of a   *)
(* success response holds: nothing, or the record.                      *)
ApiLead3 == [id |-> "3", name |-> "C", updated_at |-> <<"sql", 0>>]

SingleResponses == { <<>>, <<ApiLead3>> }

(* A call of fetchSingleLead: whether it sent a request, how the request *)
(* was answered, the records received (raw), whether the transformer     *)
(* threw on them, and the promise: pending, or resolved with value, a    *)
(* lead or nothing (null).                                              *)
SingleLead(id, state, sent, value) ==
    [id |-> id, state |-> state, sent |-> sent, answer |-> "none",
     raw |-> <<>>, raised |-> FALSE, value |-> value]

PendingSingle == { s \in 1..Len(singleLeads) : singleLeads[s].state = "pending" }

(* fetchSingleLead up to the awaited fetch: the lead of the collection, *)
(* or the GET of the record.                                           *)
fetchSingleLead(id) ==
    /\ Len(singleLeads) < MaxCalls
    /\ singleLeads' = Append(singleLeads,
           IF HasLead(leads, id)
           THEN SingleLead(id, "resolved", FALSE, <<FindLead(leads, id)>>)
           ELSE SingleLead(id, "pending", TRUE, <<>>))
    /\ dispatched' = FALSE
    /\ UNCHANGED <<leads, todos, leadFilters, todoFilters, activeLeadId,
                   isLoading, error, globalLeadsCache, activeRequests,
                   requests, callers, writes, awaitingFresh, appendOrder,
                   now>>

(* What the try block returns on response.ok and a parsed body: the     *)
(* transformed first record, or null when there is none or (the catch) *)
(* the transformer threw.                                              *)
SingleAnswered(s, data) ==
    [singleLeads[s] EXCEPT
        !.state = "resolved",
        !.answer = "success",
        !.raw = data,
        !.raised = (Len(data) > 0 /\ Raises(data[1])),
        !.value = IF Len(data) > 0 /\ ~Raises(data[1])
                  THEN <<transformApiLeadToLead(data[1])>>
                  ELSE <<>>]

(* Mutant: the fetched lead is also put into the collection (as in the *)
(* older src/unnamed/part_000).                                        *)
fetchSingleLeadSucceeds_MergesIntoLeads(s, data) ==
    /\ s \in PendingSingle
    /\ singleLeads' = [singleLeads EXCEPT ![s] = SingleAnswered(s, data)]
    /\ leads' = leads \o SingleAnswered(s, data).value
    /\ dispatched' = FALSE
    /\ UNCHANGED <<todos, leadFilters, todoFilters, activeLeadId,
                   isLoading, error, globalLeadsCache, activeRequests,
                   requests, callers, writes, awaitingFresh, appendOrder,
                   now>>

(* fetchSingleLead: response.ok and data.success *)
fetchSingleLeadSucceeds(s, data) ==
    /\ s \in PendingSingle
    /\ singleLeads' = [singleLeads EXCEPT ![s] = SingleAnswered(s, data)]
    /\ dispatched' = FALSE
    /\ UNCHANGED <<leads, todos, leadFilters, todoFilters, activeLeadId,
                   isLoading, error, globalLeadsCache, activeRequests,
                   requests, callers, writes, awaitingFresh, appendOrder,
                   now>>

(* fetchSingleLead: fetch throws or !response.ok (caught and logged), or *)
(* success: false; null is returned.                                    *)
fetchSingleLeadFails(s, kind) ==
    /\ s \in PendingSingle
    /\ singleLeads' = [singleLeads EXCEPT ![s].state = "resolved",
                                          ![s].answer = kind]
    /\ dispatched' = FALSE
    /\ UNCHANGED <<leads, todos, leadFilters, todoFilters, activeLeadId,
                   isLoading, error, globalLeadsCache, activeRequests,
                   requests, callers, writes, awaitingFresh, appendOrder,
                   now>>

----------------------------------------------------------------------------
(* The filter operations and the derived views *)

StatusIsCompleted ==
    [field |-> "status", operator |-> "=", value |-> "Completed"]

NoteContainsCall ==
    [field |-> "description", operator |-> "contains", value |-> "CALL"]

ForParticipant ==
    [field |-> "participants", operator |-> "=", value |-> "7"]

TodoFilterUniverse == {StatusIsCompleted, NoteContainsCall, ForParticipant}

TodoFilterSeqs == UNION { [1..n -> TodoFilterUniverse] : n \in 0..MaxFilters }

(* The indexes the filter bar passes: those of the filters, one past the *)
(* end, and -1.                                                          *)
FilterIndexes == -1..MaxFilters

(* Array.prototype.splice(index, 1) on a copy of the list: a negative    *)
(* index counts from the end, an index past the end removes nothing.     *)
SpliceOne(list, index) ==
    LET start == IF index >= 0 THEN index
                 ELSE IF Len(list) + index < 0 THEN 0
                 ELSE Len(list) + index
    IN IF start >= Len(list) THEN list
       ELSE SubSeq(list, 1, start) \o SubSeq(list, start + 2, Len(list))

setTodoFilters(newFilters) ==
    /\ todoFilters' = newFilters
    /\ dispatched' = FALSE
    /\ UNCHANGED <<leads, todos, leadFilters, activeLeadId, isLoading,
                   error, globalLeadsCache, activeRequests, requests,
                   callers, writes, singleLeads, awaitingFresh, appendOrder,
                   now>>

removeLeadFilter(index) ==
    /\ leadFilters' = SpliceOne(leadFilters, index)
    /\ appendOrder' = SpliceOne(leadFilters, index)
    /\ dispatched' = FALSE
    /\ UNCHANGED <<leads, todos, todoFilters, activeLeadId, isLoading,
                   error, globalLeadsCache, activeRequests, requests,
                   callers, writes, singleLeads, awaitingFresh, now>>

removeTodoFilter(index) ==
    /\ todoFilters' = SpliceOne(todoFilters, index)
    /\ dispatched' = FALSE
    /\ UNCHANGED <<leads, todos, leadFilters, activeLeadId, isLoading,
                   error, globalLeadsCache, activeRequests, requests,
                   callers, writes, singleLeads, awaitingFresh, appendOrder,
                   now>>

clearLeadFilters ==
    /\ leadFilters' = <<>>
    /\ appendOrder' = <<>>
    /\ dispatched' = FALSE
    /\ UNCHANGED <<leads, todos, todoFilters, activeLeadId, isLoading,
                   error, globalLeadsCache, activeRequests, requests,
                   callers, writes, singleLeads, awaitingFresh, now>>

clearTodoFilters ==
    /\ todoFilters' = <<>>
    /\ dispatched' = FALSE
    /\ UNCHANGED <<leads, todos, leadFilters, activeLeadId, isLoading,
                   error, globalLeadsCache, activeRequests, requests,
                   callers, writes, singleLeads, awaitingFresh, appendOrder,
                   now>>

(* The derived views: both return the collection as it is. *)
getFilteredLeads == leads

getFilteredTodos == todos

(* Passage of time between two handlers. Date.now() is read only to stamp *)
(* the cache slot and to compute the age of the slot, so time is let pass *)
(* only while the slot holds an entry younger than the window.            *)
Tick ==
    /\ Len(globalLeadsCache.data) > 0
    /\ now - globalLeadsCache.timestamp < CacheWindowMs
    /\ now' = now + TickMs
    /\ dispatched' = FALSE
    /\ UNCHANGED <<leads, todos, leadFilters, activeLeadId, isLoading, error,
                   globalLeadsCache, activeRequests, requests, callers, writes,
                   awaitingFresh,
                   todoFilters, singleLeads, appendOrder>>

Next ==
    \/ \E params \in LeadParamChoices : fetchLeads(params)
    \/ \E params \in TodoParamChoices : fetchTodos(params)
    \/ \E r \in 1..Len(requests), resp \in LeadResponses : fetchLeadsSucceeds(r, resp)
    \/ \E r \in 1..Len(requests), kind \in FailKinds : fetchLeadsFails(r, kind)
    \/ \E r \in 1..Len(requests), data \in TodoResponses : fetchTodosSucceeds(r, data)
    \/ \E r \in 1..Len(requests), kind \in FailKinds : fetchTodosFails(r, kind)
    \/ invalidateLeadsCache(FALSE)
    \/ \E fs \in FilterChoices : setLeadFilters(fs)
    \/ Tick

Spec == Init /\ [][Next]_vars

(* The provider while the filter bar is left as it was set before the *)
(* first call.                                                        *)
InitFetch ==
    /\ leadFilters \in FilterChoices
    /\ leads = <<>>
    /\ todos = <<>>
    /\ isLoading = FALSE
    /\ error = NoError
    /\ globalLeadsCache = EmptyCache
    /\ activeRequests = <<>>
    /\ requests = <<>>
    /\ callers = <<>>
    /\ activeLeadId = NoLead
    /\ writes = <<>>
    /\ dispatched = FALSE
    /\ awaitingFresh = FALSE
    /\ todoFilters = <<>>
    /\ singleLeads = <<>>
    /\ appendOrder = leadFilters
    /\ now = CacheWindowMs

NextFetch ==
    \/ \E params \in LeadParamChoices : fetchLeads(params)
    \/ \E params \in TodoParamChoices : fetchTodos(params)
    \/ \E r \in 1..Len(requests), resp \in LeadResponses : fetchLeadsSucceeds(r, resp)
    \/ \E r \in 1..Len(requests), kind \in FailKinds : fetchLeadsFails(r, kind)
    \/ \E r \in 1..Len(requests), data \in TodoResponses : fetchTodosSucceeds(r, data)
    \/ \E r \in 1..Len(requests), kind \in FailKinds : fetchTodosFails(r, kind)
    \/ invalidateLeadsCache(FALSE)
    \/ Tick

SpecFetch == InitFetch /\ [][NextFetch]_vars

(* The provider while leads are updated: the list loads its page, the *)
(* detail view opens and closes, and updateLead is called.            *)
NextUpdate ==
    \/ fetchLeads(NoParams)
    \/ \E r \in 1..Len(requests), resp \in LeadResponses : fetchLeadsSucceeds(r, resp)
    \/ \E id \in SelectionChoices : setActiveLeadId(id)
    \/ \E id \in LeadIds, leadUpdate \in LeadUpdates : updateLead(id, leadUpdate)
    \/ \E w \in 1..Len(writes) : updateLeadSucceeds(w)
    \/ \E w \in 1..Len(writes), kind \in WriteFailKinds : updateLeadFails(w, kind)

SpecUpdate == Init /\ [][NextUpdate]_vars

(* The same while the list also asks for a second page. *)
NextUpdateRace ==
    \/ \E params \in {NoParams, [page |-> 2]} : fetchLeads(params)
    \/ \E r \in 1..Len(requests), resp \in LeadResponses : fetchLeadsSucceeds(r, resp)
    \/ \E id \in LeadIds, leadUpdate \in LeadUpdates : updateLead(id, leadUpdate)
    \/ \E w \in 1..Len(writes) : updateLeadSucceeds(w)
    \/ \E w \in 1..Len(writes), kind \in WriteFailKinds : updateLeadFails(w, kind)

SpecUpdateRace == Init /\ [][NextUpdateRace]_vars

(* The provider while leads and todos are deleted. *)
NextDelete ==
    \/ fetchLeads(NoParams)
    \/ \E params \in TodoParamChoices : fetchTodos(params)
    \/ \E r \in 1..Len(requests) : fetchLeadsSucceeds(r, FullLeadPage)
    \/ \E r \in 1..Len(requests) : fetchTodosSucceeds(r, FullTodoPage)
    \/ \E id \in SelectionChoices : setActiveLeadId(id)
    \/ \E id \in LeadIds : deleteLead(id)
    \/ \E w \in 1..Len(writes) : deleteLeadSucceeds(w)
    \/ \E w \in 1..Len(writes), kind \in WriteFailKinds : deleteLeadFails(w, kind)
    \/ \E id \in TodoIds : deleteTodo(id)
    \/ \E w \in 1..Len(writes) : deleteTodoSucceeds(w)
    \/ \E w \in 1..Len(writes), kind \in WriteFailKinds : deleteTodoFails(w, kind)

SpecDelete == Init /\ [][NextDelete]_vars

(* The provider while leads are added. *)
NextAdd ==
    \/ fetchLeads(NoParams)
    \/ \E r \in 1..Len(requests), resp \in LeadResponses : fetchLeadsSucceeds(r, resp)
    \/ \E r \in 1..Len(requests), kind \in FailKinds : fetchLeadsFails(r, kind)
    \/ \E id \in SelectionChoices : setActiveLeadId(id)
    \/ addLead(NewLead)
    \/ \E w \in 1..Len(writes) : addLeadSucceeds(w, NewLeadId)
    \/ \E w \in 1..Len(writes), kind \in WriteFailKinds : addLeadFails(w, kind)

SpecAdd == Init /\ [][NextAdd]_vars

(* The provider under the write operations that reject on failure. *)
NextRejecting ==
    \/ fetchLeads(NoParams)
    \/ \E params \in TodoParamChoices : fetchTodos(params)
    \/ \E r \in 1..Len(requests) : fetchLeadsSucceeds(r, FullLeadPage)
    \/ \E r \in 1..Len(requests) : fetchTodosSucceeds(r, FullTodoPage)
    \/ addLead(NewLead)
    \/ \E w \in 1..Len(writes), kind \in WriteFailKinds : addLeadFails(w, kind)
    \/ \E leadUpdate \in LeadUpdates : updateLead(1, leadUpdate)
    \/ \E w \in 1..Len(writes), kind \in WriteFailKinds : updateLeadFails(w, kind)
    \/ addTodo(NewTodo)
    \/ \E w \in 1..Len(writes), kind \in WriteFailKinds : addTodoFails(w, kind)
    \/ \E id \in TodoIds, todoUpdate \in TodoUpdates : updateTodo(id, todoUpdate)
    \/ \E w \in 1..Len(writes), kind \in WriteFailKinds : updateTodoFails(w, kind)

SpecRejecting == Init /\ [][NextRejecting]_vars

(* fetchLeads under every way its network call fails. *)
NextFailures ==
    \/ \E params \in LeadParamChoices : fetchLeads(params)
    \/ \E r \in 1..Len(requests), resp \in LeadResponses : fetchLeadsSucceeds(r, resp)
    \/ \E r \in 1..Len(requests), kind \in AllFailKinds : fetchLeadsFails(r, kind)
    \/ invalidateLeadsCache(FALSE)

SpecFailures == Init /\ [][NextFailures]_vars

(* The same under the wider inputs. *)
InitParams ==
    /\ leadFilters \in FilterChoices
    /\ leads = <<>>
    /\ todos = <<>>
    /\ isLoading = FALSE
    /\ error = NoError
    /\ globalLeadsCache = EmptyCache
    /\ activeRequests = <<>>
    /\ requests = <<>>
    /\ callers = <<>>
    /\ activeLeadId = NoLead
    /\ writes = <<>>
    /\ dispatched = FALSE
    /\ awaitingFresh = FALSE
    /\ todoFilters = <<>>
    /\ singleLeads = <<>>
    /\ appendOrder = leadFilters
    /\ now = CacheWindowMs

NextParams ==
    \/ \E params \in WideLeadParams : fetchLeads(params)
    \/ \E r \in 1..Len(requests), resp \in LeadResponses : fetchLeadsSucceeds(r, resp)
    \/ \E r \in 1..Len(requests), kind \in FailKinds : fetchLeadsFails(r, kind)
    \/ invalidateLeadsCache(FALSE)
    \/ Tick

SpecParams == InitParams /\ [][NextParams]_vars

(* The provider while single leads are asked for. *)
NextSingle ==
    \/ fetchLeads(NoParams)
    \/ \E r \in 1..Len(requests), resp \in LeadResponses : fetchLeadsSucceeds(r, resp)
    \/ \E id \in LeadIds : fetchSingleLead(id)
    \/ \E s \in 1..Len(singleLeads), data \in SingleResponses : fetchSingleLeadSucceeds(s, data)
    \/ \E s \in 1..Len(singleLeads), kind \in AllFailKinds : fetchSingleLeadFails(s, kind)

SpecSingle == Init /\ [][NextSingle]_vars

(* The transformer on well-formed and malformed records: a well-formed  *)
(* record, the empty record, and the well-formed record with one field  *)
(* left out or set to a value of WireChoices.                           *)
WellFormed ==
    [id |-> "1", name |-> "A", budget |-> "10", labels |-> "hot",
     stage |-> "fresh_lead", priority |-> "High", source |-> "Referral",
     custom_fields |-> JsonObjectText, admin_id |-> "2",
     lead_scrore |-> "50", is_in_pipeline |-> "1",
     updated_at |-> <<"sql", 0>>]

WireChoices ==
    [id |-> {"3", "abc", "", Null, NumberFive},
     budget |-> {"50", "abc", "", Null, NumberFive},
     admin_id |-> {"abc", "", Null},
     lead_scrore |-> {"abc", "", Null},
     labels |-> {"hot,vip", "", Null, NumberFive, ArrayOfHot},
     custom_fields |-> {"not json", "null", "5", "", Null, NumberFive,
                        ArrayOfHot},
     stage |-> {"Fresh Lead", "Deal - Closed", "deal_closed", "Unlisted",
                "", Null},
     priority |-> {"General", "high", "Unlisted", "", Null},
     source |-> {"Other", "referral", "Unlisted", "", Null}]

Without(record, name) == [n \in DOMAIN record \ {name} |-> record[n]]

RawRecords ==
    {WellFormed, NoParams}
    \cup { Without(WellFormed, name) : name \in DOMAIN WireChoices }
    \cup UNION { { [WellFormed EXCEPT ![name] = value] :
                      value \in WireChoices[name] } :
                  name \in DOMAIN WireChoices }

NextTransform ==
    \/ \E id \in LeadIds : fetchSingleLead(id)
    \/ \E s \in 1..Len(singleLeads), raw \in RawRecords : fetchSingleLeadSucceeds(s, <<raw>>)

SpecTransform == Init /\ [][NextTransform]_vars

(* The provider under the filter bars of the leads and of the todos. *)
MixedTodoPage ==
    << [id |-> "3", contact_id |-> "1", note |-> "Call back",
        assigned_to |-> "7,8"],
       [id |-> "4", contact_id |-> "2", completed |-> "1"] >>

NextFilters ==
    \/ \E fs \in FilterSeqs : setLeadFilters(fs)
    \/ \E index \in FilterIndexes : removeLeadFilter(index)
    \/ clearLeadFilters
    \/ \E fs \in TodoFilterSeqs : setTodoFilters(fs)
    \/ \E index \in FilterIndexes : removeTodoFilter(index)
    \/ clearTodoFilters
    \/ fetchLeads(NoParams)
    \/ \E r \in 1..Len(requests) : fetchLeadsSucceeds(r, FullLeadPage)
    \/ fetchTodos(NoParams)
    \/ \E r \in 1..Len(requests) : fetchTodosSucceeds(r, MixedTodoPage)

SpecFilters == Init /\ [][NextFilters]_vars

(* The provider while todos are added, updated and deleted. *)
NextTodoWrites ==
    \/ fetchLeads(NoParams)
    \/ \E r \in 1..Len(requests) : fetchLeadsSucceeds(r, FullLeadPage)
    \/ fetchTodos(NoParams)
    \/ \E r \in 1..Len(requests), data \in TodoResponses : fetchTodosSucceeds(r, data)
    \/ \E r \in 1..Len(requests), kind \in FailKinds : fetchTodosFails(r, kind)
    \/ addTodo(NewTodo)
    \/ \E w \in 1..Len(writes) : addTodoSucceeds(w)
    \/ \E w \in 1..Len(writes), kind \in WriteFailKinds : addTodoFails(w, kind)
    \/ \E id \in TodoIds, todoUpdate \in TodoUpdates : updateTodo(id, todoUpdate)
    \/ \E w \in 1..Len(writes) : updateTodoSucceeds(w)
    \/ \E w \in 1..Len(writes), kind \in WriteFailKinds : updateTodoFails(w, kind)
    \/ \E id \in TodoIds : deleteTodo(id)
    \/ \E w \in 1..Len(writes) : deleteTodoSucceeds(w)
    \/ \E w \in 1..Len(writes), kind \in WriteFailKinds : deleteTodoFails(w, kind)

SpecTodoWrites == Init /\ [][NextTodoWrites]_vars

(* fetchTodos under every way its network call fails, next to a *)
(* fetchLeads that fails.                                       *)
TodoPages == { NoParams, [page |-> 2] }

NextTodoFailures ==
    \/ \E params \in TodoPages : fetchTodos(params)
    \/ \E r \in 1..Len(requests), data \in TodoResponses : fetchTodosSucceeds(r, data)
    \/ \E r \in 1..Len(requests), kind \in AllFailKinds : fetchTodosFails(r, kind)
    \/ fetchLeads(NoParams)
    \/ \E r \in 1..Len(requests) : fetchLeadsSucceeds(r, FullLeadPage)
    \/ \E r \in 1..Len(requests), kind \in AllFailKinds : fetchLeadsFails(r, kind)

SpecTodoFailures == Init /\ [][NextTodoFailures]_vars

(* The list while it asks for its first and its second page. *)
NextPages ==
    \/ \E params \in {NoParams, [page |-> 2]} : fetchLeads(params)
    \/ \E r \in 1..Len(requests), resp \in LeadResponses : fetchLeadsSucceeds(r, resp)
    \/ \E r \in 1..Len(requests), kind \in FailKinds : fetchLeadsFails(r, kind)
    \/ invalidateLeadsCache(FALSE)
    \/ Tick

SpecPages == Init /\ [][NextPages]_vars

(* The detail view: it asks for the lead it shows and sends an update on *)
(* every blur of a field.                                               *)
DetailLeadIds == {1, 2, 3}

DetailUpdates ==
    { [name |-> "Z"], [budget |-> 50],
      [customFields |-> [kind |-> "object", members |-> [area |-> "North"]]] }

NextDetail ==
    \/ fetchLeads(NoParams)
    \/ \E r \in 1..Len(requests) : fetchLeadsSucceeds(r, DetailPage)
    \/ \E id \in DetailLeadIds : fetchSingleLead(id)
    \/ \E s \in 1..Len(singleLeads) : fetchSingleLeadSucceeds(s, <<ApiLead3>>)
    \/ \E id \in DetailLeadIds, leadUpdate \in DetailUpdates : updateLead(id, leadUpdate)
    \/ \E id \in DetailLeadIds, leadUpdate \in DetailUpdates : handleInputBlur(id, leadUpdate)
    \/ \E w \in 1..Len(writes) : updateLeadSucceeds(w)
    \/ \E w \in 1..Len(writes), kind \in WriteFailKinds : updateLeadFails(w, kind)

SpecDetail == Init /\ [][NextDetail]_vars

(* The todos written with every status and every type, and read back *)
(* from a server that stores what it is sent.                        *)
TodoChoices ==
    { [leadId |-> 1, status |-> status, type |-> type] :
        status \in TodoStatuses, type \in TodoTypes }

TodoFieldUpdates ==
    { [status |-> status] : status \in TodoStatuses }
    \cup { [type |-> type] : type \in TodoTypes }

NextTodoRoundTrip ==
    \/ fetchTodos(NoParams)
    \/ \E r \in 1..Len(requests) : fetchTodosSucceeds(r, ServerTodos)
    \/ \E todo \in TodoChoices : addTodo(todo)
    \/ \E w \in 1..Len(writes) : addTodoSucceeds(w)
    \/ \E todoUpdate \in TodoFieldUpdates : updateTodo(3, todoUpdate)
    \/ \E w \in 1..Len(writes) : updateTodoSucceeds(w)

SpecTodoRoundTrip == Init /\ [][NextTodoRoundTrip]_vars

----------------------------------------------------------------------------
(* Vocabulary of the properties *)

Requests == 1..Len(requests)

Callers == 1..Len(callers)

Settles(r) == requests[r].state = "inflight" /\ requests'[r].state # "inflight"

(* What a promise settled with: the resolved value or the rejection. *)
Outcome(r) ==
    IF requests[r].state = "fail" THEN <<"rejected", requests[r].err>>
    ELSE IF requests[r].type = "leads"
         THEN <<"resolved", requests[r].data, requests[r].total>>
         ELSE <<"resolved">>

(* The step is a call of fetchLeads; NewCaller is its record. *)
IsLeadsCall ==
    /\ Len(callers') = Len(callers) + 1
    /\ callers'[Len(callers')].type = "leads"

NewCaller == callers'[Len(callers')]

Occurrences(f, fs) == Cardinality({ i \in 1..Len(fs) : fs[i] = f })

(* The two filter sequences hold the same filters, in any order. *)
SameFilters(fs1, fs2) ==
    /\ Len(fs1) = Len(fs2)
    /\ \A i \in 1..Len(fs1) : Occurrences(fs1[i], fs1) = Occurrences(fs1[i], fs2)

(* The two effective queries ask the server for the same thing. *)
SameQuery(q1, q2) ==
    /\ q1.page = q2.page
    /\ q1.perPage = q2.perPage
    /\ q1.sortField = q2.sortField
    /\ q1.sortOrder = q2.sortOrder
    /\ q1.search = q2.search
    /\ SameFilters(q1.filters, q2.filters)

(* The cache slot is the one request r stored: nothing invalidated or *)
(* replaced it since.                                                 *)
SlotHolds(r) ==
    /\ requests[r].type = "leads"
    /\ requests[r].state = "ok"
    /\ globalLeadsCache = [data |-> requests[r].data,
                           params |-> requests[r].cacheKey,
                           timestamp |-> requests[r].storedAt,
                           total |-> requests[r].total]

(* The write operations: the step confirms w (the server answered      *)
(* success: true), the step ends w without a confirmation, the step is *)
(* a call of a write operation (NewWrite is its record).               *)
Writes == 1..Len(writes)

Confirms(w) == ~writes[w].confirmed /\ writes'[w].confirmed

Refused(w) ==
    /\ writes[w].state = "pending"
    /\ writes'[w].state # "pending"
    /\ ~writes'[w].confirmed

IsWriteCall == Len(writes') = Len(writes) + 1

NewWrite == writes'[Len(writes')]

----------------------------------------------------------------------------
(* C1: for every request key, at most one network call issued through *)
(* makeRequest under that key is in flight.                            *)
C1_OneInFlightPerKey ==
    \A r1, r2 \in InFlight :
        requests[r1].key = requests[r2].key => r1 = r2

(* C2: a caller of makeRequest that arrived while a request with its key *)
(* was pending settles with the outcome of that request (a caller settles *)
(* when the promise makeRequest returned to it settles).                  *)
C2_SharedOutcome ==
    \A c \in Callers : \A r \in callers[c].inFlightSeen :
        ( /\ callers[c].how # "cache"
          /\ requests[r].key = callers[c].key
          /\ requests[r].state # "inflight"
          /\ requests[callers[c].req].state # "inflight" )
        => Outcome(callers[c].req) = Outcome(r)

(* C3: when a request settles (ok or fail) its key leaves activeRequests, *)
(* and a caller is only ever joined to a promise that has not settled, so *)
(* a call after the settlement invokes the request function again.        *)
C3_SettledKeyRemoved ==
    [][ /\ \A r \in Requests :
              Settles(r) => requests[r].key \notin DOMAIN activeRequests'
        /\ \A k \in DOMAIN activeRequests' :
              requests'[activeRequests'[k]].state = "inflight"
        /\ (Len(callers') = Len(callers) + 1 /\ NewCaller.how = "joined")
              => requests[NewCaller.req].state = "inflight" ]_vars

C3_Witness ==
    \E r1, r2 \in Requests :
        /\ r1 < r2
        /\ requests[r1].key = requests[r2].key
        /\ requests[r1].state = "fail"
        /\ requests[r2].state = "ok"
        /\ \A c \in Callers : callers[c].how # "joined"
        /\ r1 \notin callers[Len(callers)].inFlightSeen

(* C4: fetchLeads calls whose effective queries differ never share a *)
(* request: no caller is joined to a promise made for another query. *)
C4_NoSharedKeyAcrossQueries ==
    \A c \in Callers :
        (callers[c].type = "leads" /\ callers[c].how = "joined")
        => SameQuery(callers[c].query, requests[callers[c].req].query)

(* C5: two concurrent fetchLeads calls with identical effective queries *)
(* have the same dedup key and share one network call.                  *)
C5_SameQuerySameKey ==
    \A c1, c2 \in Callers :
        ( /\ c1 < c2
          /\ callers[c1].type = "leads" /\ callers[c2].type = "leads"
          /\ callers[c1].how # "cache" /\ callers[c2].how # "cache"
          /\ callers[c1].req \in callers[c2].inFlightSeen
          /\ callers[c1].query = callers[c2].query )
        => /\ callers[c1].key = callers[c2].key
           /\ callers[c1].req = callers[c2].req

(* The call of this step is answered with what request r stored, and no *)
(* network call is issued for it.                                       *)
ServedFrom(r) ==
    /\ NewCaller.how = "cache"
    /\ NewCaller.data = requests[r].data
    /\ NewCaller.total = requests[r].total
    /\ requests' = requests

(* C6 as claimed: after a fetchLeads call succeeded with a query, a call   *)
(* with the identical query less than 2 minutes later, the slot not having *)
(* been invalidated (nor replaced) in between, is served from the cache,   *)
(* whatever page the server returned.                                      *)
C6_RepeatServedFromCache ==
    [][ \A r \in Requests :
            ( /\ IsLeadsCall
              /\ SlotHolds(r)
              /\ NewCaller.query = requests[r].query
              /\ now - requests[r].storedAt < CacheWindowMs )
            => ServedFrom(r) ]_vars

(* C6 as amended: the same, for every page that is not empty. *)
C6_NonEmptyRepeatServedFromCache ==
    [][ \A r \in Requests :
            ( /\ IsLeadsCall
              /\ SlotHolds(r)
              /\ Len(requests[r].data) > 0
              /\ NewCaller.query = requests[r].query
              /\ now - requests[r].storedAt < CacheWindowMs )
            => ServedFrom(r) ]_vars

C6_Witness ==
    /\ callers # <<>>
    /\ callers[Len(callers)].how = "cache"
    /\ \E r \in Requests :
          /\ SlotHolds(r)
          /\ callers[Len(callers)].query = requests[r].query
          /\ callers[Len(callers)].data = requests[r].data
          /\ callers[Len(callers)].at > requests[r].storedAt

(* C7: while the slot holds what was stored under one query, a fetchLeads *)
(* call with a query that differs from it in page, perPage, sortField,    *)
(* sortOrder, search or filter contents is not answered from the cache.   *)
C7_MissOnOtherQuery ==
    [][ \A r \in Requests :
            ( /\ IsLeadsCall
              /\ SlotHolds(r)
              /\ ~SameQuery(NewCaller.query, requests[r].query) )
            => NewCaller.how \in {"issued", "joined"} ]_vars

C7_Witness ==
    /\ callers # <<>>
    /\ callers[Len(callers)].how = "issued"
    /\ requests[callers[Len(callers)].req].state = "inflight"
    /\ \E r \in Requests :
          /\ SlotHolds(r)
          /\ Len(requests[r].data) > 0
          /\ r \notin callers[Len(callers)].inFlightSeen
          /\ r < callers[Len(callers)].req
          /\ callers[Len(callers)].at - requests[r].storedAt < CacheWindowMs
          /\ ~SameQuery(callers[Len(callers)].query, requests[r].query)

(* C8: a fetchLeads call made 2 minutes or more after the slot was stored *)
(* is not answered from the cache.                                        *)
C8_MissOnceExpired ==
    [][ (IsLeadsCall /\ now - globalLeadsCache.timestamp >= CacheWindowMs)
        => NewCaller.how \in {"issued", "joined"} ]_vars

C8_Witness ==
    /\ callers # <<>>
    /\ callers[Len(callers)].how = "issued"
    /\ requests[callers[Len(callers)].req].state = "inflight"
    /\ \E r \in Requests :
          /\ SlotHolds(r)
          /\ Len(requests[r].data) > 0
          /\ r \notin callers[Len(callers)].inFlightSeen
          /\ r < callers[Len(callers)].req
          /\ callers[Len(callers)].at - requests[r].storedAt >= CacheWindowMs
          /\ callers[Len(callers)].query = requests[r].query

(* C9: two queries whose filter sequences are permutations of each other, *)
(* all other fields equal, have the same cache key.                       *)
C9_FilterOrderIndependent ==
    \A r1, r2 \in Requests :
        ( /\ requests[r1].type = "leads" /\ requests[r2].type = "leads"
          /\ SameQuery(requests[r1].query, requests[r2].query) )
        => requests[r1].cacheKey = requests[r2].cacheKey

(* C10: after invalidateLeadsCache, no fetchLeads call is answered from *)
(* the cache until a fetch issued after the invalidation has stored.    *)
C10_MissUntilFreshStore ==
    [][ (IsLeadsCall /\ awaitingFresh)
        => NewCaller.how \in {"issued", "joined"} ]_vars

(* C11: a confirmed updateLead(id, changes) empties the cache slot and  *)
(* dispatches the cache-invalidated event exactly when id is not the    *)
(* active lead id; an updateLead that sent nothing or was refused does  *)
(* neither.                                                             *)
C11_UpdateInvalidates ==
    [][ /\ \A w \in Writes :
              (writes[w].op = "updateLead" /\ Confirms(w))
              => /\ globalLeadsCache' = EmptyCache
                 /\ dispatched' <=> (activeLeadId # writes[w].id)
        /\ \A w \in Writes :
              (writes[w].op = "updateLead" /\ Refused(w))
              => (globalLeadsCache' = globalLeadsCache /\ ~dispatched')
        /\ (IsWriteCall /\ NewWrite.op = "updateLead")
              => (globalLeadsCache' = globalLeadsCache /\ ~dispatched') ]_vars

(* C12: a successful fetchLeads response replaces the whole cache slot by *)
(* (transformed page, cache key of the call, current time, total) and the *)
(* whole leads collection by the transformed page, and the call returns   *)
(* that page with the total.                                              *)
C12_ResponseReplacesSlotAndLeads ==
    [][ \A r \in Requests :
            ( /\ requests[r].type = "leads"
              /\ Settles(r)
              /\ requests'[r].state = "ok" )
            => /\ \E resp \in LeadResponses :
                    /\ requests'[r].data =
                           [i \in 1..Len(resp.data) |->
                               transformApiLeadToLead(resp.data[i])]
                    /\ requests'[r].total = Get(resp, "total", 0)
               /\ globalLeadsCache' =
                      [data |-> requests'[r].data,
                       params |-> CacheKey(requests[r].query),
                       timestamp |-> now,
                       total |-> requests'[r].total]
               /\ leads' = requests'[r].data ]_vars

(* A page without leads and without a total has replaced a full page. *)
C12_Witness ==
    \E r1, r2 \in Requests :
        /\ r1 < r2
        /\ requests[r1].type = "leads" /\ requests[r1].state = "ok"
        /\ Len(requests[r1].data) > 0 /\ requests[r1].total > 0
        /\ \E c \in Callers :
              callers[c].req = r2 /\ r1 \notin callers[c].inFlightSeen
        /\ SlotHolds(r2)
        /\ requests[r2].data = <<>> /\ requests[r2].total = 0
        /\ requests[r2].cacheKey # requests[r1].cacheKey
        /\ leads = <<>>

(* C13: when the network call of fetchLeads fails (fetch throws, the    *)
(* status is not OK, or the body says success: false) the call rejects  *)
(* with that error, the error message is set to it, isLoading is set to *)
(* false, and the cache slot and the leads collection are unchanged.    *)
C13_FetchFailureKeepsData ==
    [][ \A r \in Requests :
            ( /\ requests[r].type = "leads"
              /\ Settles(r)
              /\ requests'[r].state = "fail" )
            => /\ requests'[r].err \in
                      {"Failed to fetch", "Failed to fetch leads", "Server message"}
               /\ error' = requests'[r].err
               /\ isLoading' = FALSE
               /\ globalLeadsCache' = globalLeadsCache
               /\ leads' = leads ]_vars

(* A request failed on a non-OK status while the slot and the collection *)
(* held a page stored before the request was issued.                     *)
C13_Witness ==
    \E r1, r2 \in Requests :
        /\ r1 < r2
        /\ SlotHolds(r1)
        /\ Len(requests[r1].data) > 0
        /\ leads = requests[r1].data
        /\ \E c \in Callers :
              callers[c].req = r2 /\ r1 \notin callers[c].inFlightSeen
        /\ requests[r2].type = "leads"
        /\ requests[r2].state = "fail"
        /\ requests[r2].err = "Failed to fetch leads"
        /\ error = "Failed to fetch leads"
        /\ ~isLoading

(* C14: updateLead(id, changes) for a lead of the collection, where every *)
(* supplied field equals the current value of the lead (arrays by their   *)
(* content, scalars by identity; changes may be empty), sends no request  *)
(* and leaves leads, cache slot, error and active selection unchanged.    *)
C14_NoOpUpdateSendsNothing ==
    [][ ( /\ IsWriteCall
          /\ NewWrite.op = "updateLead"
          /\ HasLead(leads, NewWrite.id)
          /\ \A key \in DOMAIN NewWrite.arg :
                NewWrite.arg[key] = FindLead(leads, NewWrite.id)[key] )
        => /\ ~NewWrite.sent
           /\ NewWrite.state = "ok"
           /\ leads' = leads
           /\ globalLeadsCache' = globalLeadsCache
           /\ error' = error
           /\ activeLeadId' = activeLeadId
           /\ requests' = requests ]_vars

(* updateLead was called with the labels the selected lead already has, *)
(* while the slot held the page.                                        *)
C14_Witness ==
    \E w \in Writes :
        /\ writes[w].op = "updateLead"
        /\ writes[w].arg = [labels |-> <<"hot">>]
        /\ ~writes[w].sent
        /\ writes[w].state = "ok"
        /\ HasLead(leads, writes[w].id)
        /\ FindLead(leads, writes[w].id).labels = <<"hot">>
        /\ Len(globalLeadsCache.data) > 0
        /\ activeLeadId = writes[w].id

(* C15: the body of the request updateLead sends holds, besides the id, *)
(* only the wire fields of the supplied fields whose value differs from *)
(* the current value of the lead.                                       *)
C15_OnlyChangedFieldsSent ==
    \A w \in Writes :
        (writes[w].op = "updateLead" /\ writes[w].sent)
        => LET current == FindLead(writes[w].seen.leads, writes[w].id)
               changed == { key \in DOMAIN writes[w].arg :
                              writes[w].arg[key] # current[key] }
           IN DOMAIN writes[w].body =
                 {"id"} \cup { LeadWireName(key) : key \in changed }

(* C16: when an updateLead(id, changes) is confirmed, the lead with that *)
(* id gets every supplied field set to the supplied value and keeps every *)
(* other field except updatedAt, and every other lead of the collection  *)
(* is unchanged.                                                         *)
C16_ConfirmedUpdateMerges ==
    [][ \A w \in Writes :
            (writes[w].op = "updateLead" /\ Confirms(w))
            => /\ Len(leads') = Len(leads)
               /\ \A i \in 1..Len(leads) :
                     IF leads[i].id = writes[w].id
                     THEN \A key \in DOMAIN leads[i] \ {"updatedAt"} :
                             leads'[i][key] =
                                IF key \in DOMAIN writes[w].arg
                                THEN writes[w].arg[key]
                                ELSE leads[i][key]
                     ELSE leads'[i] = leads[i] ]_vars

(* C17: when the server confirms deleteLead(id), the leads collection *)
(* loses the leads with that id and keeps every other lead, the todos  *)
(* collection loses the todos of that lead and keeps every other todo, *)
(* and the active selection becomes null if it was id and is unchanged *)
(* otherwise.                                                          *)
C17_ConfirmedDeleteRemoves ==
    [][ \A w \in Writes :
            (writes[w].op = "deleteLead" /\ Confirms(w))
            => /\ leads' = SelectSeq(leads, LAMBDA lead : lead.id # writes[w].id)
               /\ todos' = SelectSeq(todos,
                               LAMBDA todo : todo.leadId # writes[w].id)
               /\ activeLeadId' = IF activeLeadId = writes[w].id THEN NoLead
                                  ELSE activeLeadId ]_vars

(* C18: when the remote delete is refused or the transport fails,    *)
(* deleteLead and deleteTodo leave leads, todos and active selection  *)
(* unchanged, and their promise resolves.                             *)
C18_RefusedDeleteKeepsState ==
    [][ \A w \in Writes :
            (writes[w].op \in {"deleteLead", "deleteTodo"} /\ Refused(w))
            => /\ writes'[w].state = "ok"
               /\ leads' = leads
               /\ todos' = todos
               /\ activeLeadId' = activeLeadId ]_vars

(* The delete of the selected lead, which has a todo, was refused. *)
C18_Witness ==
    \E w \in Writes :
        /\ writes[w].op = "deleteLead"
        /\ writes[w].state = "ok"
        /\ ~writes[w].confirmed
        /\ HasLead(leads, writes[w].id)
        /\ \E i \in 1..Len(todos) : todos[i].leadId = writes[w].id
        /\ activeLeadId = writes[w].id

C20_RefusedWriteRejects ==
    [][ \A w \in Writes :
            ( /\ writes[w].op \in {"addLead", "updateLead", "addTodo", "updateTodo"}
              /\ Refused(w) )
            => /\ writes'[w].state = "fail"
               /\ writes'[w].err \in {"Failed to fetch", "Server message"}
               /\ error' = writes'[w].err
               /\ leads' = leads
               /\ todos' = todos
               /\ activeLeadId' = activeLeadId
               /\ globalLeadsCache' = globalLeadsCache ]_vars

(* An updateLead that sent a request was refused while the collections *)
(* and the slot were loaded.                                           *)
C20_Witness ==
    \E w \in Writes :
        /\ writes[w].op = "updateLead"
        /\ writes[w].sent
        /\ writes[w].state = "fail"
        /\ error = writes[w].err
        /\ error = "Server message"
        /\ HasLead(leads, writes[w].id)
        /\ FindLead(leads, writes[w].id) = FindLead(writes[w].seen.leads, writes[w].id)
        /\ Len(todos) > 0
        /\ Len(globalLeadsCache.data) > 0

----------------------------------------------------------------------------
(* The calls of fetchSingleLead: the step is a call (NewSingle is its *)
(* record), the step settles the promise of call s.                   *)
Singles == 1..Len(singleLeads)

IsSingleCall == Len(singleLeads') = Len(singleLeads) + 1

NewSingle == singleLeads'[Len(singleLeads')]

SingleSettles(s) ==
    singleLeads[s].state = "pending" /\ singleLeads'[s].state # "pending"

(* C21: fetchSingleLead(id) resolves with the lead of the collection and *)
(* sends nothing when the collection holds a lead with the id; otherwise *)
(* it sends one request and resolves (it never rejects) with the lead    *)
(* made of the record the server answered with, or with null when the    *)
(* server answered with no record or the request failed; no step of      *)
(* fetchSingleLead changes the leads collection.                         *)
C21_SingleLeadFromMemoryOrServer ==
    [][ /\ IsSingleCall =>
              IF \E i \in 1..Len(leads) : leads[i].id = NewSingle.id
              THEN /\ ~NewSingle.sent
                   /\ NewSingle.state = "resolved"
                   /\ \E i \in 1..Len(leads) :
                          /\ leads[i].id = NewSingle.id
                          /\ NewSingle.value = <<leads[i]>>
              ELSE /\ NewSingle.sent
                   /\ NewSingle.state = "pending"
        /\ \A s \in Singles : SingleSettles(s) =>
              LET call == singleLeads'[s]
              IN /\ call.state = "resolved"
                 /\ IF call.answer = "success" /\ Len(call.raw) > 0
                    THEN /\ Len(call.value) = 1
                         /\ NumberToString(call.value[1].id) = call.raw[1].id
                         /\ call.value[1].name = call.raw[1].name
                    ELSE call.value = <<>>
        /\ singleLeads' # singleLeads => leads' = leads
      ]_vars

(* One call was answered from the collection, another by the server with *)
(* the record of a lead that the collection does not hold.               *)
C21_Witness ==
    \E s1, s2 \in Singles :
        /\ ~singleLeads[s1].sent
        /\ Len(singleLeads[s1].value) = 1
        /\ singleLeads[s2].sent
        /\ singleLeads[s2].state = "resolved"
        /\ Len(singleLeads[s2].value) = 1
        /\ Len(leads) > 0
        /\ ~HasLead(leads, singleLeads[s2].value[1].id)

----------------------------------------------------------------------------
(* The step is one of the filter operations of the leads. *)
IsLeadFilterOperation ==
    \/ \E fs \in FilterSeqs : setLeadFilters(fs)
    \/ \E index \in FilterIndexes : removeLeadFilter(index)
    \/ clearLeadFilters

(* C22: clearLeadFilters leaves the lead filters empty and the cache slot *)
(* cleared (so the next fetchLeads misses the cache); setLeadFilters,     *)
(* removeLeadFilter and clearLeadFilters send no request.                 *)
C22_ClearFiltersClearsSlot ==
    [][ /\ clearLeadFilters =>
              /\ leadFilters' = <<>>
              /\ globalLeadsCache'.data = <<>>
              /\ globalLeadsCache'.params = NoCacheKey
        /\ IsLeadFilterOperation =>
              /\ requests' = requests
              /\ activeRequests' = activeRequests
      ]_vars

----------------------------------------------------------------------------
(* The list without the element at position index (from 0). *)
WithoutPosition(list, index) ==
    [i \in 1..(Len(list) - 1) |->
        IF i <= index THEN list[i] ELSE list[i + 1]]

(* C23: removeLeadFilter(index) and removeTodoFilter(index) with a valid *)
(* index leave the filters in their append order (the order the filter   *)
(* operations left them in) without the one at position index: the other *)
(* filters keep their relative order, and an equal filter at another     *)
(* position stays.                                                       *)
C23_RemovesFilterAtIndex ==
    [][ \A index \in FilterIndexes :
          /\ (removeLeadFilter(index) /\ index >= 0
                /\ index < Len(appendOrder)) =>
                 leadFilters' = WithoutPosition(appendOrder, index)
          /\ (removeTodoFilter(index) /\ index >= 0
                /\ index < Len(todoFilters)) =>
                 todoFilters' = WithoutPosition(todoFilters, index)
      ]_vars

----------------------------------------------------------------------------
(* text.toLowerCase().includes(part.toLowerCase()) on the texts of the *)
(* todos and of the filters of the model.                              *)
ContainsIgnoreCase(text, part) ==
    \/ part = ""
    \/ <<text, part>> \in { <<"Call back", "CALL">>, <<"Call back", "call">>,
                             <<"Call back", "back">> }

IsList(field) == field = "participants"

(* The todo satisfies the filter: membership when the field is a list, *)
(* equality for '=', case-insensitive substring for 'contains'.        *)
Satisfies(todo, filter) ==
    IF IsList(filter.field)
    THEN \E i \in 1..Len(todo[filter.field]) :
            todo[filter.field][i] = filter.value
    ELSE IF filter.operator = "=" THEN todo[filter.field] = filter.value
    ELSE IF filter.operator = "contains"
         THEN ContainsIgnoreCase(todo[filter.field], filter.value)
    ELSE FALSE

SatisfiesAll(todo, filters) ==
    \A i \in 1..Len(filters) : Satisfies(todo, filters[i])

(* C24: getFilteredTodos is the in-memory todos that satisfy every todo *)
(* filter, in their order; all the todos when there is no filter.       *)
C24_FilteredTodosSatisfyFilters ==
    getFilteredTodos =
        SelectSeq(todos, LAMBDA todo : SatisfiesAll(todo, todoFilters))

----------------------------------------------------------------------------
(* The todo after the update: the supplied fields set, the others (but *)
(* the update stamp) as they were.                                     *)
IsUpdateOf(after, before, changes) ==
    /\ DOMAIN after = DOMAIN before \cup DOMAIN changes \cup {"updatedAt"}
    /\ \A key \in DOMAIN changes : after[key] = changes[key]
    /\ \A key \in DOMAIN before \ (DOMAIN changes \cup {"updatedAt"}) :
          after[key] = before[key]

(* C25: the step that confirms an addTodo adds nothing to the todos: the *)
(* handler awaits a fetch of the todos, and until it resumes the todos   *)
(* change only by the answer of such a fetch; the step that confirms an  *)
(* updateTodo(id, changes) sets the supplied fields of the todo with the *)
(* id and leaves every other todo as it is; the step that confirms a     *)
(* deleteTodo(id) removes the todo with the id and no other; none of the *)
(* three changes the leads or the cache slot.                            *)
C25_TodoWritesChangeOnlyTheirTodo ==
    [][ \A w \in Writes :
          /\ (Confirms(w) /\ writes[w].op = "addTodo") =>
                /\ todos' = todos
                /\ writes'[w].state = "refetching"
                /\ requests'[writes'[w].req].type = "todos"
                /\ requests'[writes'[w].req].state = "inflight"
          /\ (writes[w].op = "addTodo" /\ writes[w].state = "refetching"
                /\ todos' # todos) =>
                \E r \in Requests :
                    requests[r].type = "todos" /\ Settles(r)
          /\ (Confirms(w) /\ writes[w].op = "updateTodo") =>
                /\ Len(todos') = Len(todos)
                /\ \A i \in 1..Len(todos) :
                      IF todos[i].id = writes[w].id
                      THEN IsUpdateOf(todos'[i], todos[i], writes[w].arg)
                      ELSE todos'[i] = todos[i]
          /\ (Confirms(w) /\ writes[w].op = "deleteTodo") =>
                todos' = SelectSeq(todos, LAMBDA todo : todo.id # writes[w].id)
          /\ (Confirms(w)
                /\ writes[w].op \in {"addTodo", "updateTodo", "deleteTodo"}) =>
                /\ leads' = leads
                /\ globalLeadsCache' = globalLeadsCache
      ]_vars

----------------------------------------------------------------------------
(* The network call of the fetchTodos request r ends in a failure at *)
(* this step.                                                        *)
TodoFetchFails(r) ==
    /\ requests[r].type = "todos"
    /\ Settles(r)
    /\ requests'[r].answer # "success"

----------------------------------------------------------------------------
(* The calls of fetchSingleLead that the server answered with a record: *)
(* the transformer was applied to singleLeads[s].raw[1].                *)
Transformed ==
    { s \in Singles :
        singleLeads[s].answer = "success" /\ Len(singleLeads[s].raw) > 0 }

RawOf(s) == singleLeads[s].raw[1]

LeadOf(s) == singleLeads[s].value[1]

(* C27: the transformer throws on no raw record, and the lead it returns *)
(* has a list as labels and a mapping as customFields.                   *)
C27_TransformerIsTotal ==
    \A s \in Transformed :
        /\ ~singleLeads[s].raised
        /\ Len(singleLeads[s].value) = 1
        /\ DOMAIN LeadOf(s).labels = 1..Len(LeadOf(s).labels)
        /\ LeadOf(s).customFields.kind = "object"

(* The wire value matches an option of the set: it is one of its values *)
(* or one of its wire values.                                           *)
MatchesOption(options, wire) ==
    \E opt \in options : wire = opt.value \/ wire = opt.apiValue

(* C28: the stage, the priority and the source of the lead the          *)
(* transformer returns are values of their option sets, and the fallback *)
(* ('Fresh Lead', 'General', 'Other') when the wire value matches no     *)
(* option.                                                               *)
C28_EnumsInOptionSets ==
    \A s \in Transformed : ~singleLeads[s].raised =>
        /\ LeadOf(s).stage \in OptionValues(stageOptions)
        /\ LeadOf(s).priority \in OptionValues(priorityOptions)
        /\ LeadOf(s).source \in OptionValues(sourceOptions)
        /\ ~MatchesOption(stageOptions, Get(RawOf(s), "stage", Undefined))
              => LeadOf(s).stage = "Fresh Lead"
        /\ ~MatchesOption(priorityOptions, Get(RawOf(s), "priority", Undefined))
              => LeadOf(s).priority = "General"
        /\ ~MatchesOption(sourceOptions, Get(RawOf(s), "source", Undefined))
              => LeadOf(s).source = "Other"

(* The number is the one the wire value spells: the numeral read back, *)
(* the number itself when the wire value is a number, 0 otherwise.     *)
IsParsed(number, wire) ==
    IF \E i \in 1..Len(Numerals) : Numerals[i] = wire
    THEN NumberToString(number) = wire
    ELSE IF wire = NumberFive THEN number = 5
    ELSE number = 0

(* C29: id, budget, adminId and leadScore of the lead the transformer  *)
(* returns are the numbers their wire values spell, and 0 when the wire *)
(* value is missing or not numeric.                                     *)
C29_NumbersParsedOrZero ==
    \A s \in Transformed : ~singleLeads[s].raised =>
        /\ IsParsed(LeadOf(s).id, Get(RawOf(s), "id", Undefined))
        /\ IsParsed(LeadOf(s).budget, Get(RawOf(s), "budget", Undefined))
        /\ IsParsed(LeadOf(s).adminId, Get(RawOf(s), "admin_id", Undefined))
        /\ IsParsed(LeadOf(s).leadScore,
                    Get(RawOf(s), "lead_scrore", Undefined))

----------------------------------------------------------------------------
(* Requests q and r were in flight together (r has not settled yet): q *)
(* was issued after r, or r was issued while q was in flight.          *)
InFlightTogether(q, r) ==
    \/ q > r
    \/ \E c \in Callers :
          /\ callers[c].how = "issued"
          /\ callers[c].req = r
          /\ q \in callers[c].inFlightSeen

(* The key of the slot is the key of the query of a request that was *)
(* answered with the data and the total of the slot.                 *)
KeyNamesData ==
    globalLeadsCache.params # NoCacheKey =>
        \E r \in Requests :
            /\ requests[r].type = "leads"
            /\ requests[r].state = "ok"
            /\ globalLeadsCache.params = CacheKey(requests[r].query)
            /\ globalLeadsCache.data = requests[r].data
            /\ Get(globalLeadsCache, "total", 0) = requests[r].total

(* C30: when a fetchLeads request is answered after another one with   *)
(* other parameters that was in flight together with it and was        *)
(* answered too, the leads and the slot (data, key, total) are those of *)
(* the request answered last, whichever was issued first; and the key  *)
(* of the slot always names the query that produced its data.          *)
C30_LastCompletionWins ==
    [][ /\ \A q, r \in Requests :
              ( /\ q # r
                /\ requests[q].type = "leads"
                /\ requests[r].type = "leads"
                /\ requests[q].state = "ok"
                /\ Settles(r)
                /\ requests'[r].state = "ok"
                /\ InFlightTogether(q, r)
                /\ ~SameQuery(requests[q].query, requests[r].query) )
              => /\ leads' = requests'[r].data
                 /\ globalLeadsCache'.data = requests'[r].data
                 /\ globalLeadsCache'.params = CacheKey(requests[r].query)
                 /\ globalLeadsCache'.total = requests'[r].total
        /\ KeyNamesData'
      ]_vars

(* The request issued first was answered last, with another page than *)
(* the one issued after it: the leads and the slot are its page, under *)
(* its key.                                                            *)
C30_Witness ==
    \E r1, r2 \in Requests :
        /\ r1 < r2
        /\ requests[r1].type = "leads" /\ requests[r1].state = "ok"
        /\ requests[r2].type = "leads" /\ requests[r2].state = "ok"
        /\ \E c \in Callers :
              /\ callers[c].how = "issued"
              /\ callers[c].req = r2
              /\ r1 \in callers[c].inFlightSeen
        /\ ~SameQuery(requests[r1].query, requests[r2].query)
        /\ requests[r1].data # requests[r2].data
        /\ SlotHolds(r1)
        /\ globalLeadsCache.params # requests[r2].cacheKey
        /\ leads = requests[r1].data

----------------------------------------------------------------------------
(* The deleteLead calls the server has confirmed. *)
ConfirmedDeletes ==
    { w \in Writes : writes[w].op = "deleteLead" /\ writes[w].confirmed }

(* C31: once the server has confirmed deleteLead(id), no call of fetchLeads *)
(* puts a lead with that id back into the leads collection; in particular   *)
(* not a call that is answered from the cache slot stored before the delete. *)
C31_DeletedLeadStaysDeleted ==
    [][ \A w \in ConfirmedDeletes :
            (IsLeadsCall /\ ~HasLead(leads, writes[w].id))
            => ~HasLead(leads', writes[w].id) ]_vars

----------------------------------------------------------------------------
(* The addLead and updateLead calls the server has confirmed. *)
ConfirmedMutations ==
    { w \in Writes :
        writes[w].op \in {"addLead", "updateLead"} /\ writes[w].confirmed }

(* The page is older than the mutation w: it lacks the lead w added, or *)
(* it holds the lead w updated with a supplied field at another value.  *)
PreMutation(page, w) ==
    IF writes[w].op = "addLead" THEN ~HasLead(page, writes[w].id)
    ELSE \E i \in 1..Len(page) :
            /\ page[i].id = writes[w].id
            /\ \E key \in DOMAIN writes[w].arg :
                  page[i][key] # writes[w].arg[key]

(* C32: a fetchLeads request that was in flight when an addLead or an    *)
(* updateLead was confirmed does not overwrite the cache slot or the     *)
(* leads collection with a page older than the mutation: the slot and    *)
(* the collection never hold a page the server produced before the most  *)
(* recent confirmed mutation.                                            *)
C32_NoPreMutationPageStored ==
    [][ \A r \in Requests : \A w \in ConfirmedMutations :
            ( /\ requests[r].type = "leads"
              /\ Settles(r)
              /\ requests[r].preInv
              /\ requests'[r].state = "ok"
              /\ PreMutation(requests'[r].data, w) )
            => /\ globalLeadsCache' = globalLeadsCache
               /\ leads' = leads ]_vars

----------------------------------------------------------------------------
(* The updateLead calls the server has confirmed. *)
ConfirmedUpdates ==
    { w \in Writes : writes[w].op = "updateLead" /\ writes[w].confirmed }

(* The fields the update v supplied that the update w does not overwrite. *)
FieldsKept(v, w) ==
    IF writes[v].id = writes[w].id
    THEN DOMAIN writes[v].arg \ DOMAIN writes[w].arg
    ELSE DOMAIN writes[v].arg

(* C33: when the second of two updateLead calls is confirmed, the leads   *)
(* collection keeps what the first one merged (every field it supplied    *)
(* that the second does not supply for the same lead), and it keeps every *)
(* lead but the updated one as it was, also when a fetchLeads delivered   *)
(* the collection while the update was in flight.                         *)
C33_ConcurrentUpdatesBothKept ==
    [][ \A w \in Writes :
            (writes[w].op = "updateLead" /\ Confirms(w))
            => /\ \A v \in ConfirmedUpdates : \A i \in 1..Len(leads) :
                     leads[i].id = writes[v].id
                     => /\ Len(leads') = Len(leads)
                        /\ \A key \in FieldsKept(v, w) :
                              leads[i][key] = writes[v].arg[key]
                              => leads'[i][key] = writes[v].arg[key]
               /\ \A r \in Requests :
                     ( /\ requests[r].type = "leads"
                       /\ requests[r].state = "ok"
                       /\ leads = requests[r].data )
                     => /\ Len(leads') = Len(leads)
                        /\ \A i \in 1..Len(leads) :
                              leads[i].id # writes[w].id
                              => leads'[i] = leads[i] ]_vars

----------------------------------------------------------------------------
(* The leads fetchSingleLead fetched from the server. *)
FetchedSingly ==
    { singleLeads[s].value[1].id :
        s \in { t \in Singles : /\ singleLeads[t].sent
                                /\ singleLeads[t].state = "resolved"
                                /\ Len(singleLeads[t].value) = 1 } }

(* C35: updateLead(id, changes) for a lead that fetchSingleLead(id) *)
(* fetched from the server does not fail with 'Lead not found'.     *)
C35_UpdateOfFetchedLeadFindsIt ==
    [][ ( /\ IsWriteCall
          /\ NewWrite.op = "updateLead"
          /\ NewWrite.id \in FetchedSingly )
        => /\ NewWrite.err # "Lead not found"
           /\ NewWrite.state # "fail" ]_vars

----------------------------------------------------------------------------
(* C36: after a confirmed updateLead whose changes include customFields, *)
(* the customFields of the lead in the collection are those that were    *)
(* sent to the server: the custom fields the lead had, merged with the   *)
(* supplied ones; the keys that were not supplied are kept.              *)
C36_CustomFieldsAsSent ==
    [][ \A w \in Writes :
            ( /\ writes[w].op = "updateLead"
              /\ Confirms(w)
              /\ "customFields" \in DOMAIN writes[w].arg )
            => LET before == FindLead(writes[w].seen.leads, writes[w].id)
                   after == FindLead(leads', writes[w].id)
               IN /\ Stringify(Members(after.customFields), CustomFieldOrder)
                         = writes[w].body.custom_fields
                  /\ \A name \in DOMAIN Members(before.customFields) \
                                 DOMAIN Members(writes[w].arg.customFields) :
                        /\ name \in DOMAIN Members(after.customFields)
                        /\ Members(after.customFields)[name] =
                              Members(before.customFields)[name] ]_vars

----------------------------------------------------------------------------
(* C34: isLoading is true exactly while a network call of fetchLeads or *)
(* fetchTodos is in flight: the completion of one fetch does not clear  *)
(* the flag while another is pending.                                   *)
C34_LoadingWhileFetching == isLoading <=> (InFlight # {})

----------------------------------------------------------------------------
(* C37: a call of fetchLeads leaves the lead filters as they are: the *)
(* sequence is not reordered by the computation of the cache key, so  *)
(* every filter keeps the index the filter operations gave it.        *)
C37_FetchLeavesFiltersAlone ==
    [][ IsLeadsCall => leadFilters' = leadFilters ]_vars

----------------------------------------------------------------------------
(* The id of the todo the call w wrote: the one it created or updated. *)
WrittenTodo(w) ==
    IF writes[w].op = "addTodo" THEN ParseInt(NewTodoId) ELSE writes[w].id

(* The confirmed addTodo and updateTodo calls that no later confirmed *)
(* call on the same todo follows.                                     *)
LastTodoWrites ==
    { w \in Writes :
        /\ writes[w].op \in {"addTodo", "updateTodo"}
        /\ writes[w].confirmed
        /\ \A v \in Writes :
              ( /\ v > w
                /\ writes[v].confirmed
                /\ writes[v].op \in {"addTodo", "updateTodo", "deleteTodo"} )
              => WrittenTodo(v) # WrittenTodo(w) }

(* C38: a status and a type written with addTodo or updateTodo are read *)
(* back unchanged by a fetchTodos that the server, which stores what it *)
(* was sent, answers after the write: this for every status and every   *)
(* type.                                                                *)
C38_TodoStatusAndTypeRoundTrip ==
    [][ \A r \in Requests :
            ( /\ requests[r].type = "todos"
              /\ Settles(r)
              /\ requests'[r].answer = "success" )
            => \A w \in LastTodoWrites : \A i \in 1..Len(todos') :
                  todos'[i].id = WrittenTodo(w)
                  => /\ "status" \in DOMAIN writes[w].arg
                           => todos'[i].status = writes[w].arg.status
                     /\ "type" \in DOMAIN writes[w].arg
                           => todos'[i].type = writes[w].arg.type ]_vars

----------------------------------------------------------------------------
(* The step ends the addLead call w: its promise resolves or rejects. *)
AddLeadEnds(w) ==
    /\ writes[w].op = "addLead"
    /\ writes[w].state \in {"pending", "refetching"}
    /\ writes'[w].state \in {"ok", "fail"}

(* C39: addLead rejects only when the create request failed: when the  *)
(* server confirmed the creation, addLead resolves and the active      *)
(* selection becomes the new id, also when the refetch that follows    *)
(* fails.                                                              *)
C39_AddLeadRejectsOnlyOnCreateFailure ==
    [][ \A w \in Writes :
            (AddLeadEnds(w) /\ writes[w].confirmed)
            => /\ writes'[w].state = "ok"
               /\ activeLeadId' = writes[w].id ]_vars

----------------------------------------------------------------------------
(* C40: the step that confirms an addTodo issues a fetch of the todos of *)
(* its own (it is not joined to a fetchTodos request that was pending    *)
(* before the creation), and addTodo resolves only when the server       *)
(* answered that fetch with the todos, which are then the todos          *)
(* collection: a failed refetch does not let addTodo report success.     *)
C40_AddTodoRefetchesFresh ==
    [][ \A w \in Writes :
          /\ (writes[w].op = "addTodo" /\ Confirms(w))
             => /\ Len(requests') = Len(requests) + 1
                /\ writes'[w].req = Len(requests')
                /\ requests'[Len(requests')].type = "todos"
          /\ ( /\ writes[w].op = "addTodo"
               /\ writes[w].state = "refetching"
               /\ writes'[w].state = "ok" )
             => /\ Settles(writes[w].req)
                /\ requests'[writes[w].req].answer = "success" ]_vars

====
